---- MODULE Spec2Model ----
(***************************************************************************)
(* A model of ispawn's configuration-to-deployment compiler:               *)
(*   - ispawn/domain/config.py  : Config (validation, persistence, names)  *)
(*   - ispawn/domain/image.py   : ImageConfig.target_image                 *)
(*   - ispawn/main.py           : parse_volumes, setup                     *)
(* Python strings are sequences of one-character strings; None and enum    *)
(* members are one-element sequences holding a multi-character tag, so     *)
(* that every value stays comparable with every other.                     *)
(***************************************************************************)
EXTENDS Integers, Sequences, FiniteSets, TLC

VARIABLES
    kwargs,     \* keyword arguments of the Config(...) call / options of the last setup
    cfg,        \* the Config object in memory (NoObject before construction)
    files,      \* persisted config.yaml per scope: "user" (~/.ispawn), "system" (/etc/ispawn)
    loaded,     \* result of the last Config.load / from_yaml
    res,        \* outcome of the last operation: [op, err, ...]
    dirs,       \* host directories created by Config.__init__ (user root names)
    imgIn,      \* inputs of ImageConfig: [config, base, services]
    imgOut,     \* result of target_image: [err, tag]
    volIn,      \* inputs of parse_volumes: [volumes, mnt]
    volOut,     \* result of parse_volumes: [err, out]
    ccIn,       \* arguments of ContainerConfig(...) and of run_container
    cc,         \* the ContainerConfig object (NoObject before construction)
    engine,     \* the container engine: the containers it holds, newest first
    calls       \* the calls made to the engine by the last operation, in order

vars == <<kwargs, cfg, files, loaded, res, dirs, imgIn, imgOut, volIn, volOut,
          ccIn, cc, engine, calls>>

\* the variables of a run (untouched by configuration, image and volume steps)
runVars == <<ccIn, cc, engine, calls>>

-----------------------------------------------------------------------------
(* Python str primitives                                                   *)

\* ASCII order of the characters the model uses (str comparison is by code point)
Alphabet ==
    << " ", "-", ".", "/",
       "0", "1", "2", "3", "4", "5", "6", "7", "8", "9", ":", "@",
       "A", "B", "C", "D", "E", "F", "G", "H", "I", "J", "K", "L", "M",
       "N", "O", "P", "Q", "R", "S", "T", "U", "V", "W", "X", "Y", "Z", "_",
       "a", "b", "c", "d", "e", "f", "g", "h", "i", "j", "k", "l", "m",
       "n", "o", "p", "q", "r", "s", "t", "u", "v", "w", "x", "y", "z" >>

Ord(c) == CHOOSE i \in 1..Len(Alphabet) : Alphabet[i] = c

UpperChars == { Alphabet[i] : i \in Ord("A")..Ord("Z") }

\* str.lower on one character: 'A'..'Z' are 'a'..'z' shifted
LowerChar(c) == IF c \in UpperChars THEN Alphabet[Ord(c) - Ord("A") + Ord("a")] ELSE c

Lower(s) == [i \in 1..Len(s) |-> LowerChar(s[i])]

\* a < b for Python strings (lexicographic by code point, a proper prefix is smaller)
RECURSIVE StrLess(_, _)
StrLess(a, b) ==
    IF b = <<>> THEN FALSE
    ELSE IF a = <<>> THEN TRUE
    ELSE IF Head(a) = Head(b) THEN StrLess(Tail(a), Tail(b))
    ELSE Ord(Head(a)) < Ord(Head(b))

EndsWith(s, suf) ==
    /\ Len(suf) <= Len(s)
    /\ SubSeq(s, Len(s) - Len(suf) + 1, Len(s)) = suf

StartsWith(s, pre) ==
    /\ Len(pre) <= Len(s)
    /\ SubSeq(s, 1, Len(pre)) = pre

RECURSIVE RStrip(_, _)
RStrip(s, c) ==
    IF s # <<>> /\ s[Len(s)] = c THEN RStrip(SubSeq(s, 1, Len(s) - 1), c) ELSE s

RECURSIVE LStrip(_, _)
LStrip(s, c) ==
    IF s # <<>> /\ Head(s) = c THEN LStrip(Tail(s), c) ELSE s

HasChar(s, c) == \E i \in 1..Len(s) : s[i] = c

HasSub(s, sub) == \E i \in 1..(Len(s) - Len(sub) + 1) : SubSeq(s, i, i + Len(sub) - 1) = sub

\* s.split(c): the fields between the occurrences of c (always at least one field)
RECURSIVE Split(_, _)
Split(s, c) ==
    IF ~HasChar(s, c) THEN <<s>>
    ELSE LET i == CHOOSE k \in 1..Len(s) : s[k] = c /\ \A j \in 1..(k - 1) : s[j] # c
         IN  <<SubSeq(s, 1, i - 1)>> \o Split(SubSeq(s, i + 1, Len(s)), c)

\* sep.join(parts)
RECURSIVE Join(_, _)
Join(parts, sep) ==
    IF parts = <<>> THEN <<>>
    ELSE IF Len(parts) = 1 THEN parts[1]
    ELSE parts[1] \o sep \o Join(Tail(parts), sep)

\* list.sort() on a list of str: ascending, stable (insertion of each element
\* after the elements not greater than it)
RECURSIVE Insert(_, _)
Insert(x, sorted) ==
    IF sorted = <<>> THEN <<x>>
    ELSE IF StrLess(x, Head(sorted)) THEN <<x>> \o sorted
    ELSE <<Head(sorted)>> \o Insert(x, Tail(sorted))

RECURSIVE Sort(_)
Sort(l) == IF l = <<>> THEN <<>> ELSE Insert(l[Len(l)], Sort(SubSeq(l, 1, Len(l) - 1)))

-----------------------------------------------------------------------------
(* Literals                                                                *)

None == <<"<None>">>
PyFalse == <<"<False>">>
NoObject == [kind |-> "no object"]

S_local == <<"l", "o", "c", "a", "l">>
S_LOCAL == <<"L", "O", "C", "A", "L">>
S_remote == <<"r", "e", "m", "o", "t", "e">>
S_user == <<"u", "s", "e", "r">>
S_system == <<"s", "y", "s", "t", "e", "m">>
S_letsencrypt == <<"l", "e", "t", "s", "e", "n", "c", "r", "y", "p", "t">>
S_provided == <<"p", "r", "o", "v", "i", "d", "e", "d">>
S_invalid == <<"i", "n", "v", "a", "l", "i", "d">>
S_dotlocalhost == <<".", "l", "o", "c", "a", "l", "h", "o", "s", "t">>
S_demo_localhost == <<"d", "e", "m", "o", ".", "l", "o", "c", "a", "l", "h", "o", "s", "t">>
S_mylocalhost == <<"m", "y", "l", "o", "c", "a", "l", "h", "o", "s", "t">>
S_example_com == <<"e", "x", "a", "m", "p", "l", "e", ".", "c", "o", "m">>
S_subnet == <<"1", "7", "2", ".", "3", "0", ".", "0", ".", "0", "/", "2", "4">>
S_ispawn == <<"i", "s", "p", "a", "w", "n">>
S_email == <<"a", "@", "b", ".", "i", "o">>
S_dns1 == <<"8", ".", "8", ".", "8", ".", "8">>
S_dns2 == <<"8", ".", "8", ".", "4", ".", "4">>
S_dns3 == <<"1", ".", "1", ".", "1", ".", "1">>
S_mnt == <<"/", "m", "n", "t">>
S_mnt_slash == <<"/", "m", "n", "t", "/">>
S_home_slash == <<"/", "h", "o", "m", "e", "/">>
S_home == <<"/", "h", "o", "m", "e">>
S_home_2slash == <<"/", "h", "o", "m", "e", "/", "/">>
S_timezone == <<"E", "u", "r", "o", "p", "e", "/", "P", "a", "r", "i", "s">>
S_etc_ispawn == <<"/", "e", "t", "c", "/", "i", "s", "p", "a", "w", "n">>
S_home_dir == <<"/", "h", "o", "m", "e", "/", "u">>
S_certs == <<"/", "c", "e", "r", "t", "s">>
S_dot_ispawn == <<"/", ".", "i", "s", "p", "a", "w", "n">>
S_env_rel == <<"e", "n", "v", ".", "s", "h">>
S_given_certs == <<"/", "s", "r", "v", "/", "c", "e", "r", "t", "s">>

NoFiles == [s \in {"user", "system"} |-> None]
Idle == [op |-> "idle", err |-> "none"]
\* a variable of an operation that has not been called
Unset == [kind |-> "idle"]

\* no run requested, an empty engine
RunIdle == ccIn = Unset /\ cc = NoObject /\ engine = <<>> /\ calls = <<>>

\* Python truthiness of an Optional[str] / Optional[list]: None and the empty value are falsy
Truthy(v) == v # None /\ v # <<>>

\* os.getcwd() of the process
Cwd == S_home_dir

\* Path(p).resolve(): absolute, no empty or "." components, no trailing "/"
PathResolve(p) ==
    LET keep(x) == x # <<>> /\ x # <<".">>
        own == SelectSeq(Split(p, "/"), keep)
        parts == IF StartsWith(p, <<"/">>) THEN own
                 ELSE SelectSeq(Split(Cwd, "/"), keep) \o own
    IN  IF parts = <<>> THEN <<"/">> ELSE <<"/">> \o Join(parts, <<"/">>)

-----------------------------------------------------------------------------
(* ispawn/domain/config.py                                                 *)

\* Enum members (BaseMode subclasses); EnumValue is the member's .value / str()
ProxyMode_LOCAL == <<"ProxyMode.LOCAL">>
ProxyMode_REMOTE == <<"ProxyMode.REMOTE">>
CertMode_LETSENCRYPT == <<"CertMode.LETSENCRYPT">>
CertMode_PROVIDED == <<"CertMode.PROVIDED">>
InstallMode_SYSTEM == <<"InstallMode.SYSTEM">>
InstallMode_USER == <<"InstallMode.USER">>

ProxyMode == {ProxyMode_LOCAL, ProxyMode_REMOTE}
CertMode == {CertMode_LETSENCRYPT, CertMode_PROVIDED}
InstallMode == {InstallMode_SYSTEM, InstallMode_USER}
BaseMode == ProxyMode \cup CertMode \cup InstallMode

EnumValue(m) ==
    CASE m = ProxyMode_LOCAL -> S_local
      [] m = ProxyMode_REMOTE -> S_remote
      [] m = CertMode_LETSENCRYPT -> S_letsencrypt
      [] m = CertMode_PROVIDED -> S_provided
      [] m = InstallMode_SYSTEM -> S_system
      [] m = InstallMode_USER -> S_user

\* BaseMode.from_str: cls(value.lower()), ValueError when no member has that value
InvalidMode == <<"<ValueError>">>
from_str(cls, value) ==
    LET v == Lower(value)
    IN  IF \E m \in cls : EnumValue(m) = v
        THEN CHOOSE m \in cls : EnumValue(m) = v
        ELSE InvalidMode

\* Path.home() of the invoking user
PathHome == S_home_dir

\* Config.get_system_dir
get_system_dir == S_etc_ispawn

\* Config.config_dir (from install_mode)
config_dir(install_mode) ==
    IF install_mode = InstallMode_SYSTEM THEN get_system_dir ELSE PathHome \o S_dot_ispawn

\* The scope whose config.yaml Config.save writes, from config_dir
ScopeOf(install_mode) == IF install_mode = InstallMode_SYSTEM THEN "system" ELSE "user"

\* the parameters of Config.__init__ (all of them are given when loading)
ConfigFields ==
    { "mode", "install_mode", "dns", "domain", "subnet", "name", "user_in_namespace",
      "mount_point", "volumes", "env_chunk_path", "dockerfile_chunk_path",
      "entrypoint_chunk_path", "home_prefix", "timezone", "cert_mode", "cert_dir", "email" }

\* str(Path(p).resolve()) if p else None
ResolveChunk(p) == IF Truthy(p) THEN PathResolve(p) ELSE None

\* self.dns = dns or ["8.8.8.8", "8.8.4.4"]
NormDns(dns) == IF Truthy(dns) THEN dns ELSE <<S_dns1, S_dns2>>

\* self.mount_point = mount_point.rstrip("/") if mount_point else ""
NormMountPoint(mount_point) ==
    IF Truthy(mount_point) THEN RStrip(mount_point, "/") ELSE <<>>

\* the prefix with one trailing "/" removed instead of all of them
NormHomePrefix_One(home_prefix) ==
    IF home_prefix # <<>> /\ home_prefix[Len(home_prefix)] = "/"
    THEN SubSeq(home_prefix, 1, Len(home_prefix) - 1)
    ELSE home_prefix

\* self.home_prefix = home_prefix.rstrip("/")
NormHomePrefix(home_prefix) == RStrip(home_prefix, "/")

\* the email test applied to the provided-certificate mode instead
EmailMissing_Provided(cert_mode, email) == cert_mode = CertMode_PROVIDED /\ ~Truthy(email)

\* remote mode: self.cert_mode == CertMode.LETSENCRYPT and not email
EmailMissing(cert_mode, email) == cert_mode = CertMode_LETSENCRYPT /\ ~Truthy(email)

\* the suffix test without the leading dot
LocalDomainOk_NoDot(domain) == EndsWith(domain, Tail(S_dotlocalhost))

\* local mode: self.domain.endswith(".localhost")
LocalDomainOk(domain) == EndsWith(domain, S_dotlocalhost)

\* Config.__init__: [err, made, obj].  err is the exception raised ("none" when the
\* object is constructed), made tells whether the mkdir calls of lines 119-123 ran,
\* obj is the object's __dict__.
ConfigInit(a) ==
    LET mode == from_str(ProxyMode, a.mode)
        install_mode == from_str(InstallMode, a.install_mode)
        cert_mode == IF a.cert_mode = None THEN None ELSE from_str(CertMode, a.cert_mode)
        fail(e, m) == [err |-> e, made |-> m, obj |-> NoObject]
        obj == [ install_mode |-> install_mode,
                 dns |-> NormDns(a.dns),
                 mount_point |-> NormMountPoint(a.mount_point),
                 home_prefix |-> NormHomePrefix(a.home_prefix),
                 cert_mode |-> IF mode = ProxyMode_REMOTE THEN cert_mode ELSE None,
                 email |-> IF mode = ProxyMode_REMOTE THEN a.email ELSE None,
                 domain |-> a.domain,
                 mode |-> mode,
                 subnet |-> a.subnet,
                 name |-> a.name,
                 user_in_namespace |-> a.user_in_namespace,
                 volumes |-> a.volumes,
                 env_chunk_path |-> ResolveChunk(a.env_chunk_path),
                 dockerfile_chunk_path |-> ResolveChunk(a.dockerfile_chunk_path),
                 entrypoint_chunk_path |-> ResolveChunk(a.entrypoint_chunk_path),
                 timezone |-> a.timezone,
                 cert_dir |-> IF a.cert_dir = None
                              THEN config_dir(install_mode) \o S_certs
                              ELSE a.cert_dir ]
    IN  IF mode = InvalidMode THEN fail("ValueError", FALSE)
        ELSE IF install_mode = InvalidMode THEN fail("ValueError", FALSE)
        ELSE IF mode = ProxyMode_REMOTE
        THEN IF a.cert_mode = None THEN fail("ConfigurationError", TRUE)
             ELSE IF cert_mode = InvalidMode THEN fail("ValueError", TRUE)
             ELSE IF EmailMissing(cert_mode, a.email) THEN fail("ConfigurationError", TRUE)
             ELSE [err |-> "none", made |-> TRUE, obj |-> obj]
        ELSE IF Truthy(a.email) THEN fail("ConfigurationError", TRUE)
             ELSE IF ~LocalDomainOk(a.domain) THEN fail("ConfigurationError", TRUE)
             ELSE [err |-> "none", made |-> TRUE, obj |-> obj]

\* Config.to_yaml: the dumped mapping; BaseMode values are written as str(v)
to_yaml(c) == [k \in DOMAIN c |-> IF c[k] \in BaseMode THEN EnumValue(c[k]) ELSE c[k]]

\* Config.from_yaml: cls(**safe_load(fh))
from_yaml(doc) ==
    IF DOMAIN doc = ConfigFields THEN ConfigInit(doc)
    ELSE [err |-> "TypeError", made |-> FALSE, obj |-> NoObject]

-----------------------------------------------------------------------------
(* ispawn/main.py: parse_volumes                                           *)

S_ro == <<"r", "o">>
S_rw == <<"r", "w">>
S_data == <<"/", "d", "a", "t", "a">>
S_nope == <<"/", "n", "o", "p", "e">>
S_work == <<"/", "h", "o", "m", "e", "/", "u", "/", "w", "o", "r", "k">>
S_data_w == <<"/", "d", "a", "t", "a", ":", "/", "w">>
S_data_w_ro == <<"/", "d", "a", "t", "a", ":", "/", "w", ":", "r", "o">>
S_data_w_rw == <<"/", "d", "a", "t", "a", ":", "/", "w", ":", "r", "w">>
S_data_w_rx == <<"/", "d", "a", "t", "a", ":", "/", "w", ":", "r", "x">>
S_data_w_ro_z == <<"/", "d", "a", "t", "a", ":", "/", "w", ":", "r", "o", ":", "z">>
S_data_w_empty == <<"/", "d", "a", "t", "a", ":", "/", "w", ":">>
S_nope_w == <<"/", "n", "o", "p", "e", ":", "/", "w">>
S_data_rel == <<"/", "d", "a", "t", "a", ":", "w">>

\* The host file system seen by Path.resolve(strict=True): the directories that exist
HostPaths == { <<"/">>, S_data, S_home, S_home_dir, S_work }

\* the character class of is_valid_path: [a-zA-Z0-9\-_\. /]
PathChars ==
    { Alphabet[i] : i \in Ord("a")..Ord("z") } \cup UpperChars
        \cup { Alphabet[i] : i \in Ord("0")..Ord("9") } \cup {"-", "_", ".", " ", "/"}

\* is_valid_path: re.match(r"^/[a-zA-Z0-9\-_\. /]+$", path) and "//" not in path
is_valid_path(path) ==
    /\ Len(path) >= 2
    /\ path[1] = "/"
    /\ \A i \in 2..Len(path) : path[i] \in PathChars
    /\ ~HasSub(path, <<"/", "/">>)

\* a 3-field specification's third field is "ro" or "rw"
ModeOk(parsed) == Len(parsed) = 3 => parsed[3] \in {S_ro, S_rw}

\* first loop body of parse_volumes, for one specification: [err, item]
ParseSpec(volume, mnt) ==
    IF HasChar(volume, ":")
    THEN LET parsed == Split(volume, ":")
         IN  IF Len(parsed) > 3 THEN [err |-> "ValueError", item |-> None]
             ELSE IF ~ModeOk(parsed) THEN [err |-> "ValueError", item |-> None]
             ELSE [err |-> "none", item |-> parsed]
    ELSE LET p1 == RStrip(mnt, "/")
             p2 == RStrip(LStrip(volume, "/"), "/")
         IN  [err |-> "none", item |-> <<volume, p1 \o <<"/">> \o p2>>]

\* second loop body of parse_volumes, for one parsed item: [err, item]
CheckItem(item) ==
    LET host == PathResolve(item[1])
    IN  IF host \notin HostPaths THEN [err |-> "FileNotFoundError", item |-> None]
        ELSE IF ~is_valid_path(item[2]) THEN [err |-> "ValueError", item |-> None]
        ELSE [err |-> "none", item |-> [item EXCEPT ![1] = host]]

\* parse_volumes(volumes, mnt): [err, out]; out is None when an exception is raised
parse_volumes(volumes, mnt) ==
    LET n == Len(volumes)
        first == [i \in 1..n |-> ParseSpec(volumes[i], mnt)]
        second == [i \in 1..n |-> CheckItem(first[i].item)]
        bad == { i \in 1..n : second[i].err # "none" }
        i0 == CHOOSE i \in bad : \A j \in bad : i <= j
    IN  IF \E i \in 1..n : first[i].err # "none"
        THEN [err |-> "ValueError", out |-> None]
        ELSE IF bad # {} THEN [err |-> second[i0].err, out |-> None]
        ELSE [err |-> "none", out |-> [i \in 1..n |-> second[i].item]]

\* the specifications and mount-point prefixes parse_volumes is called with
VolumeSpecs ==
    { S_data, S_nope, S_work, S_data_w, S_data_w_ro, S_data_w_rw, S_data_w_rx,
      S_data_w_ro_z, S_data_w_empty, S_nope_w, S_data_rel }
MountPrefixes == { S_mnt, S_mnt_slash, <<>> }
MaxVolumes == 2

RECURSIVE SeqsUpTo(_, _)
SeqsUpTo(S, n) ==
    IF n = 0 THEN { <<>> }
    ELSE LET shorter == SeqsUpTo(S, n - 1)
         IN  shorter \cup { Append(q, x) : q \in { r \in shorter : Len(r) = n - 1 }, x \in S }

ParseVolumes ==
    /\ volIn # Unset
    /\ volOut' = parse_volumes(volIn.volumes, volIn.mnt)
    /\ res' = [op |-> "parse_volumes", err |-> volOut'.err]
    /\ UNCHANGED <<kwargs, cfg, files, loaded, dirs, imgIn, imgOut, volIn>>
    /\ UNCHANGED runVars

-----------------------------------------------------------------------------
(* Config lifecycle: construct, save, load                                 *)

\* the keyword arguments varied together (the others are varied one by one in ArgSet)
OtherArgs ==
    { [dns |-> None, mount_point |-> None, home_prefix |-> S_home_slash,
       volumes |-> None, env_chunk_path |-> None, cert_dir |-> None],
      [dns |-> <<>>, mount_point |-> S_mnt_slash, home_prefix |-> S_home_2slash,
       volumes |-> <<>>, env_chunk_path |-> S_env_rel, cert_dir |-> S_given_certs],
      [dns |-> <<S_dns3>>, mount_point |-> S_mnt, home_prefix |-> S_home,
       volumes |-> << <<S_home_dir, S_mnt \o S_home_dir>> >>, env_chunk_path |-> None, cert_dir |-> None] }

MkArgs(im, m, d, cm, e, o) ==
    [ install_mode |-> im, dns |-> o.dns, mount_point |-> o.mount_point, home_prefix |-> o.home_prefix,
      cert_mode |-> cm, email |-> e, domain |-> d,
      mode |-> m, subnet |-> S_subnet, name |-> S_ispawn,
      user_in_namespace |-> PyFalse, volumes |-> o.volumes,
      env_chunk_path |-> o.env_chunk_path, dockerfile_chunk_path |-> None,
      entrypoint_chunk_path |-> None, timezone |-> S_timezone,
      cert_dir |-> o.cert_dir ]

\* keyword-argument values the constructor is called with
ArgSet ==
    { MkArgs(im, m, d, cm, e, o) :
        im \in {S_user, S_system},
        m \in {S_local, S_LOCAL, S_remote},
        d \in {S_demo_localhost, S_example_com, S_mylocalhost},
        cm \in {None, S_letsencrypt, S_provided, S_invalid},
        e \in {None, <<>>, S_email},
        o \in OtherArgs }

\* c = Config(**kwargs)
Construct ==
    LET r == ConfigInit(kwargs)
    IN  /\ cfg' = r.obj
        /\ dirs' = IF r.made THEN dirs \cup {kwargs.name} ELSE dirs
        /\ res' = [op |-> "init", err |-> r.err]
        /\ UNCHANGED <<kwargs, files, loaded, imgIn, imgOut, volIn, volOut>>
        /\ UNCHANGED runVars

\* c.save(): to_yaml into config_dir/config.yaml
Save ==
    /\ cfg # NoObject
    /\ files' = [files EXCEPT ![ScopeOf(cfg.install_mode)] = to_yaml(cfg)]
    /\ res' = [op |-> "save", err |-> "none"]
    /\ UNCHANGED <<kwargs, cfg, loaded, dirs, imgIn, imgOut, volIn, volOut>>
    /\ UNCHANGED runVars

\* Config.load(user_mode): from_yaml of the scope's file, None when there is none
Load(user_mode) ==
    LET scope == IF user_mode THEN "user" ELSE "system"
        r == from_yaml(files[scope])
    IN  IF files[scope] = None
        THEN /\ loaded' = NoObject
             /\ res' = [op |-> "load", err |-> "none", scope |-> scope]
             /\ UNCHANGED <<kwargs, cfg, files, dirs, imgIn, imgOut, volIn, volOut>>
             /\ UNCHANGED runVars
        ELSE /\ loaded' = r.obj
             /\ dirs' = IF r.made THEN dirs \cup {files[scope].name} ELSE dirs
             /\ res' = [op |-> "load", err |-> r.err, scope |-> scope]
             /\ UNCHANGED <<kwargs, cfg, files, imgIn, imgOut, volIn, volOut>>
             /\ UNCHANGED runVars

InitConfig ==
    /\ kwargs \in ArgSet
    /\ cfg = NoObject
    /\ files = NoFiles
    /\ loaded = NoObject
    /\ res = Idle
    /\ dirs = {}
    /\ RunIdle
    /\ imgIn = Unset /\ imgOut = Unset
    /\ volIn = Unset /\ volOut = Unset

NextConfig ==
    \/ Construct
    \/ Save
    \/ \E user_mode \in BOOLEAN : Load(user_mode)

SpecConfig == InitConfig /\ [][NextConfig]_vars

-----------------------------------------------------------------------------
(* ispawn setup: main.setup and ConfigManager.apply_config (SpecSetup)     *)

\* Config.__eq__ comparing only the mode fields
ConfigEq_ModesOnly(a, b) == \A k \in {"mode", "install_mode", "cert_mode"} : a[k] = b[k]

\* Config.__eq__ on two Config objects: every key of self.__dict__ compares equal
ConfigEq(a, b) == \A k \in DOMAIN a : a[k] = b[k]

\* ConfigManager(config, force).apply_config() as far as the persisted file goes:
\* [err, why, files].  A system-scoped configuration needs root; an existing persisted
\* copy that differs from the requested one blocks the write unless force is set.
apply_config(config, force, root, fs) ==
    LET scope == ScopeOf(config.install_mode)
        existing == from_yaml(fs[scope])
    IN  IF config.install_mode = InstallMode_SYSTEM /\ ~root
        THEN [files |-> fs, err |-> "ConfigurationError", why |-> "root required"]
        ELSE IF fs[scope] # None /\ ~force /\ ~ConfigEq(config, existing.obj)
        THEN [files |-> fs, err |-> "ConfigurationError", why |-> "config differs"]
        ELSE [files |-> [fs EXCEPT ![scope] = to_yaml(config)], err |-> "none",
              why |-> "applied"]

\* option values of setup invocations (click.Choice restricts the modes; the
\* mount point and the DNS list are the command's defaults)
SetupOpt(im, m, d, cm, e, v) ==
    MkArgs(im, m, d, cm, e,
           [dns |-> <<S_dns1, S_dns2>>, mount_point |-> S_mnt, home_prefix |-> S_home_slash,
            volumes |-> v, env_chunk_path |-> None, cert_dir |-> None])

SetupOptions ==
    { SetupOpt(S_user, S_local, S_demo_localhost, None, None, <<S_data>>),
      SetupOpt(S_user, S_local, S_demo_localhost, S_provided, None, <<S_data>>),
      SetupOpt(S_user, S_remote, S_example_com, S_provided, None, <<S_data>>),
      SetupOpt(S_user, S_remote, S_demo_localhost, S_provided, None, <<S_data>>),
      SetupOpt(S_user, S_remote, S_example_com, S_letsencrypt, S_email, <<S_data>>),
      SetupOpt(S_system, S_local, S_demo_localhost, None, None, <<S_data>>),
      SetupOpt(S_system, S_remote, S_example_com, S_provided, None, <<S_data>>),
      SetupOpt(S_user, S_remote, S_example_com, None, None, <<S_data>>),
      SetupOpt(S_user, S_local, S_example_com, None, None, <<S_data>>),
      SetupOpt(S_user, S_local, S_demo_localhost, None, S_email, <<S_data>>),
      SetupOpt(S_user, S_local, S_demo_localhost, None, None, <<S_nope>>) }

\* ispawn [-f] setup ...: parse the default volumes, construct the Config, apply it.
\* root tells whether the process runs with euid 0.
Setup(a, force, root) ==
    LET v == parse_volumes(a.volumes, a.mount_point)
        r == ConfigInit([a EXCEPT !.volumes = v.out])
        ap == apply_config(r.obj, force, root, files)
        out(e, st) == [op |-> "setup", err |-> e, force |-> force, root |-> root, stage |-> st]
    IN  /\ kwargs' = a
        /\ IF v.err # "none"
           THEN /\ res' = out(v.err, "volumes")
                /\ cfg' = NoObject
                /\ UNCHANGED <<files, dirs>>
           ELSE IF r.err # "none"
           THEN /\ res' = out(r.err, "config")
                /\ cfg' = NoObject
                /\ dirs' = IF r.made THEN dirs \cup {a.name} ELSE dirs
                /\ UNCHANGED files
           ELSE /\ res' = out(ap.err, ap.why)
                /\ cfg' = r.obj
                /\ dirs' = dirs \cup {a.name}
                /\ files' = ap.files
        /\ UNCHANGED <<loaded, imgIn, imgOut, volIn, volOut>>
        /\ UNCHANGED runVars

InitSetup ==
    /\ kwargs = Unset /\ cfg = NoObject /\ files = NoFiles /\ loaded = NoObject
    /\ res = Idle /\ dirs = {}
    /\ RunIdle
    /\ imgIn = Unset /\ imgOut = Unset
    /\ volIn = Unset /\ volOut = Unset

NextSetup ==
    \E a \in SetupOptions, force \in BOOLEAN, root \in BOOLEAN : Setup(a, force, root)

SpecSetup == InitSetup /\ [][NextSetup]_vars

\* A setup step whose options were valid (the apply stage ran), judged on the
\* requested Config, the persisted copy found in its scope, and the step's flags:
\* when refuse(differs, forced, privileged) holds the step must fail with
\* ConfigurationError and leave the files as they were, otherwise the requested
\* Config must have become the persisted one.
ApplyGate(refuse(_, _, _)) ==
    (res'.op = "setup" /\ cfg' # NoObject) =>
        LET scope == ScopeOf(cfg'.install_mode)
            differs == files[scope] # None /\ ConfigInit(files[scope]).obj # cfg'
            privileged == cfg'.install_mode = InstallMode_USER \/ res'.root
        IN  IF refuse(differs, res'.force, privileged)
            THEN res'.err = "ConfigurationError" /\ files' = files
            ELSE res'.err = "none" /\ files' = [files EXCEPT ![scope] = to_yaml(cfg')]

RefuseAsStated(differs, forced, privileged) == differs /\ ~forced
RefuseAmended(differs, forced, privileged) == (differs /\ ~forced) \/ ~privileged

\* C5 (as stated): an apply with a differing persisted copy and no force fails
\* with ConfigurationError and leaves the persisted file unchanged; with force,
\* or no persisted copy, or an equal one, the requested config becomes the
\* persisted one.
C5_ApplyGate_AsStated == [][ApplyGate(RefuseAsStated)]_vars

\* C5 (amended): the same, where the write happens only when the process may
\* write the scope (user scope, or system scope as root); a system-scoped apply
\* without root fails with ConfigurationError and leaves the files unchanged.
C5_ApplyGate == [][ApplyGate(RefuseAmended)]_vars

\* a setup without force was refused because the persisted copy differs
C5_Witness ==
    /\ res.op = "setup" /\ res.stage = "config differs" /\ res.err = "ConfigurationError"
    /\ ~res.force /\ files["user"] # None

-----------------------------------------------------------------------------
(* Claims about Config construction and persistence (SpecConfig)           *)

IsLocalArg == Lower(kwargs.mode) = S_local
IsRemoteArg == Lower(kwargs.mode) = S_remote
Constructed == res.op = "init" /\ res.err = "none" /\ cfg # NoObject
Rejected(e) == res.op = "init" /\ res.err = e /\ cfg = NoObject

\* C1: in local mode the constructor raises ConfigurationError whenever a
\* (non-empty) email is supplied or the domain does not end with ".localhost";
\* with no email and a ".localhost" domain it constructs a Config whose
\* cert_mode and email are None.
C1_LocalValidation ==
    (res.op = "init" /\ IsLocalArg) =>
        IF Truthy(kwargs.email) \/ ~EndsWith(kwargs.domain, S_dotlocalhost)
        THEN Rejected("ConfigurationError")
        ELSE Constructed /\ cfg.cert_mode = None /\ cfg.email = None

C1_Witness ==
    /\ res.op = "init" /\ IsLocalArg
    /\ ~Truthy(kwargs.email)
    /\ kwargs.domain = S_mylocalhost
    /\ res.err = "ConfigurationError"

\* C2: in remote mode the constructor raises ConfigurationError when cert_mode
\* is None and when cert_mode is letsencrypt with no email; with provided
\* (any email) or letsencrypt and an email it constructs a Config that keeps
\* the given cert_mode and email.
C2_RemoteValidation ==
    (res.op = "init" /\ IsRemoteArg) =>
        /\ kwargs.cert_mode = None => Rejected("ConfigurationError")
        /\ (kwargs.cert_mode = S_letsencrypt /\ ~Truthy(kwargs.email))
               => Rejected("ConfigurationError")
        /\ (kwargs.cert_mode = S_letsencrypt /\ Truthy(kwargs.email))
               => (Constructed /\ cfg.cert_mode = CertMode_LETSENCRYPT
                               /\ cfg.email = kwargs.email)
        /\ kwargs.cert_mode = S_provided
               => (Constructed /\ cfg.cert_mode = CertMode_PROVIDED
                               /\ cfg.email = kwargs.email)

C2_Witness ==
    /\ res.op = "init" /\ IsRemoteArg
    /\ kwargs.cert_mode = S_provided /\ kwargs.email = None
    /\ Constructed /\ cfg.cert_mode = CertMode_PROVIDED

\* C3: in local mode a supplied certificate strategy (cert_mode not None) is
\* rejected with ConfigurationError, never coerced to None.
C3_LocalCertModeRejected ==
    (res.op = "init" /\ IsLocalArg /\ kwargs.cert_mode # None)
        => Rejected("ConfigurationError")

\* C4: a Config written by save and read back by load from the same scope is
\* equal to the original under Config.__eq__ (in both directions).
C4_RoundTrip ==
    (/\ res.op = "load"
     /\ cfg # NoObject
     /\ res.scope = ScopeOf(cfg.install_mode)
     /\ files[res.scope] # None)
        => /\ res.err = "none"
           /\ loaded # NoObject
           /\ ConfigEq(loaded, cfg)
           /\ ConfigEq(cfg, loaded)

C4_Witness ==
    /\ res.op = "load" /\ cfg # NoObject /\ loaded # NoObject
    /\ res.scope = ScopeOf(cfg.install_mode)
    /\ kwargs.home_prefix = S_home_2slash /\ loaded.home_prefix = S_home
    /\ kwargs.mount_point = S_mnt_slash /\ loaded.mount_point = S_mnt
    /\ kwargs.dns = <<>> /\ loaded.dns = <<S_dns1, S_dns2>>
    /\ IsLocalArg /\ kwargs.cert_mode # None /\ loaded.cert_mode = None

-----------------------------------------------------------------------------
(* parse_volumes on its own (SpecVolumes)                                  *)

InitVolumes ==
    /\ volIn \in [volumes : SeqsUpTo(VolumeSpecs, MaxVolumes), mnt : MountPrefixes]
    /\ volOut = Unset
    /\ kwargs = Unset /\ cfg = NoObject /\ files = NoFiles /\ loaded = NoObject
    /\ res = Idle /\ dirs = {}
    /\ RunIdle
    /\ imgIn = Unset /\ imgOut = Unset

NextVolumes == ParseVolumes

SpecVolumes == InitVolumes /\ [][NextVolumes]_vars

NumFields(v) == Len(Split(v, ":"))
Malformed(v) ==
    \/ NumFields(v) > 3
    \/ NumFields(v) = 3 /\ Split(v, ":")[3] \notin {S_ro, S_rw}

\* C10: parse_volumes rejects with a ValidationError every input holding a
\* specification with more than 3 colon-delimited fields, or with 3 fields
\* whose third is neither "ro" nor "rw", and returns no binding list then.
C10_MalformedIsValidationError ==
    (/\ res.op = "parse_volumes"
     /\ \E i \in 1..Len(volIn.volumes) : Malformed(volIn.volumes[i]))
        => volOut.err = "ValidationError" /\ volOut.out = None

\* the last non-empty '/'-separated component of a path
Basename(p) ==
    LET nonempty(x) == x # <<>>
        parts == SelectSeq(Split(p, "/"), nonempty)
    IN  IF parts = <<>> THEN <<>> ELSE parts[Len(parts)]

IsBare(v) == ~HasChar(v, ":")

\* C11: for every bare specification (no ':') of an accepted input, the
\* container path of its binding is the mount-point prefix (without a trailing
\* '/'), '/', and the basename of the host path.
C11_BareBasename ==
    (res.op = "parse_volumes" /\ volOut.err = "none") =>
        \A i \in 1..Len(volIn.volumes) :
            IsBare(volIn.volumes[i]) =>
                volOut.out[i][2] =
                    RStrip(volIn.mnt, "/") \o <<"/">> \o Basename(volIn.volumes[i])

\* the host path a specification names, as the file system resolves it
HostOf(v) == PathResolve(Split(v, ":")[1])

\* C12: every binding parse_volumes returns has an absolute host path that
\* exists, and an input holding a well-formed specification whose host path
\* does not exist is rejected with a ValidationError.
C12_MissingHostIsValidationError ==
    res.op = "parse_volumes" =>
        /\ volOut.err = "none" =>
              \A i \in 1..Len(volOut.out) :
                  StartsWith(volOut.out[i][1], <<"/">>) /\ volOut.out[i][1] \in HostPaths
        /\ (/\ \A i \in 1..Len(volIn.volumes) : ~Malformed(volIn.volumes[i])
            /\ \E i \in 1..Len(volIn.volumes) : HostOf(volIn.volumes[i]) \notin HostPaths)
              => volOut.err = "ValidationError" /\ volOut.out = None

-----------------------------------------------------------------------------
(* ImageConfig (ispawn/domain/image.py)                                    *)

S_jupyter == <<"j", "u", "p", "y", "t", "e", "r">>
S_jupyterhub == <<"j", "u", "p", "y", "t", "e", "r", "h", "u", "b">>
S_jupyterlab == <<"j", "u", "p", "y", "t", "e", "r", "l", "a", "b">>
S_vscode == <<"v", "s", "c", "o", "d", "e">>
S_rstudio == <<"r", "s", "t", "u", "d", "i", "o">>
S_lab == <<"l", "a", "b">>
S_latest == <<"l", "a", "t", "e", "s", "t">>
S_ubuntu == <<"u", "b", "u", "n", "t", "u">>
S_ubuntu_latest == <<"u", "b", "u", "n", "t", "u", ":", "l", "a", "t", "e", "s", "t">>
S_ubuntu_2004 == <<"u", "b", "u", "n", "t", "u", ":", "2", "0", ".", "0", "4">>
S_docker_ubuntu == <<"d", "o", "c", "k", "e", "r", ".", "i", "o", "/", "l", "i", "b", "r", "a", "r", "y", "/", "u", "b", "u", "n", "t", "u", ":", "2", "0", ".", "0", "4">>
S_quay_centos == <<"q", "u", "a", "y", ".", "i", "o", "/", "c", "e", "n", "t", "o", "s", "/", "c", "e", "n", "t", "o", "s", ":", "7">>
S_port_ubuntu == <<"l", "o", "c", "a", "l", "h", "o", "s", "t", ":", "5", "0", "0", "0", "/", "u", "b", "u", "n", "t", "u", ":", "2", "2", ".", "0", "4">>
S_library_ubuntu == <<"l", "i", "b", "r", "a", "r", "y", "/", "u", "b", "u", "n", "t", "u">>
S_env_chunk == <<"/", "d", "a", "t", "a", "/", "e", "n", "v", ".", "s", "h">>
S_no_chunk == <<"/", "d", "a", "t", "a", "/", "n", "o", "n", "e", ".", "s", "h">>

\* the Service enum: one member per directory under ispawn/domain/services,
\* its value the directory name
ServiceValues == { S_jupyter, S_jupyterhub, S_jupyterlab, S_vscode }
ServiceMember(v) == << "<Service>", v >>
ServiceValue(m) == m[2]

\* files a chunk path may name; v_path.exists()
ChunkExists(p) == p \in { S_env_chunk }

\* Config.image_name_prefix without the separator
image_name_prefix_Bare(name) == name

\* Config.image_name_prefix: f"{self.name}-"
image_name_prefix(name) == name \o <<"-">>

\* ImageConfig.__init__: [err, obj].  Service.from_str raises ValueError for an
\* identifier that is no Service value; a configured chunk path that does not
\* exist raises FileNotFoundError.
ImageConfigInit(config, base, services) ==
    IF \E i \in 1..Len(services) : services[i] \notin ServiceValues
    THEN [err |-> "ValueError", obj |-> NoObject]
    ELSE IF \E k \in {"env_chunk_path", "dockerfile_chunk_path", "entrypoint_chunk_path"} :
                Truthy(config[k]) /\ ~ChunkExists(config[k])
    THEN [err |-> "FileNotFoundError", obj |-> NoObject]
    ELSE [err |-> "none",
          obj |-> [config |-> config,
                   base |-> base,
                   services |-> [i \in 1..Len(services) |-> ServiceMember(services[i])]]]

\* the service values of target_image left in the order of self.services
SortedValues_Unsorted(members) == [i \in 1..Len(members) |-> ServiceValue(members[i])]

\* services = [s.value for s in self.services]; services.sort()
SortedValues(members) == Sort([i \in 1..Len(members) |-> ServiceValue(members[i])])

\* ImageConfig.target_image: [err, tag].  The two-name unpacking of
\* self.base.split(":") raises ValueError unless there are exactly two fields.
target_image(self) ==
    LET services == Join(SortedValues(self.services), <<"-">>)
        prefix == image_name_prefix(self.config.name)
        fields == Split(self.base, ":")
    IN  IF HasChar(self.base, ":")
        THEN IF Len(fields) # 2
             THEN [err |-> "ValueError", tag |-> None]
             ELSE [err |-> "none",
                   tag |-> prefix \o fields[1] \o <<":">> \o fields[2] \o <<"-">> \o services]
        ELSE [err |-> "none", tag |-> prefix \o self.base \o <<":">> \o services]

\* ImageConfig(config, base, services).target_image
ImageTag(config, base, services) ==
    LET ic == ImageConfigInit(config, base, services)
    IN  IF ic.err # "none" THEN [err |-> ic.err, tag |-> None] ELSE target_image(ic.obj)

ImageCfg(name, env, dockerfile, entrypoint) ==
    [name |-> name, env_chunk_path |-> env, dockerfile_chunk_path |-> dockerfile,
     entrypoint_chunk_path |-> entrypoint]

ImageCfgs ==
    { ImageCfg(S_ispawn, None, None, None),
      ImageCfg(S_lab, S_env_chunk, None, None),
      ImageCfg(S_ispawn, None, S_no_chunk, None) }

BaseRefs ==
    { S_ubuntu, S_ubuntu_latest, S_ubuntu_2004, S_library_ubuntu,
      S_docker_ubuntu, S_quay_centos, S_port_ubuntu }

ServiceIds == ServiceValues \cup { S_rstudio }

MaxServices == 3

TargetImage ==
    /\ imgIn # Unset
    /\ imgOut' = ImageTag(imgIn.config, imgIn.base, imgIn.services)
    /\ res' = [op |-> "target_image", err |-> imgOut'.err]
    /\ UNCHANGED <<kwargs, cfg, files, loaded, dirs, imgIn, volIn, volOut>>
    /\ UNCHANGED runVars

InitImage ==
    /\ imgIn \in [config : ImageCfgs, base : BaseRefs,
                  services : SeqsUpTo(ServiceIds, MaxServices)]
    /\ imgOut = Unset
    /\ kwargs = Unset /\ cfg = NoObject /\ files = NoFiles /\ loaded = NoObject
    /\ res = Idle /\ dirs = {}
    /\ RunIdle
    /\ volIn = Unset /\ volOut = Unset

NextImage == TargetImage

SpecImage == InitImage /\ [][NextImage]_vars

-----------------------------------------------------------------------------
(* Claims about the image tag (SpecImage)                                  *)

\* every ordering of a list
Orderings(l) == { [i \in 1..Len(l) |-> l[p[i]]] : p \in Permutations(1..Len(l)) }

TagDerived == imgOut # Unset /\ imgOut.err = "none"

\* C6: for any base reference, every ordering of the same list of service
\* identifiers gives the identical result of target_image.
C6_OrderIndependent ==
    imgOut # Unset =>
        \A o \in Orderings(imgIn.services) : ImageTag(imgIn.config, imgIn.base, o) = imgOut

\* a tag was derived from three different services given out of order
C6_Witness ==
    /\ TagDerived
    /\ imgIn.services = <<S_vscode, S_jupyterlab, S_jupyter>>

IsAscending(l) == \A i \in 1..(Len(l) - 1) : ~StrLess(l[i + 1], l[i])
Colons(s) == { i \in 1..Len(s) : s[i] = ":" }
Constructible ==
    /\ \A i \in 1..Len(imgIn.services) : imgIn.services[i] \in ServiceValues
    /\ imgIn.config.dockerfile_chunk_path = None

C8_LatestDefault ==
    (imgOut # Unset /\ Constructible /\ ~HasChar(imgIn.base, ":")) =>
        imgOut = ImageTag(imgIn.config, imgIn.base \o <<":">> \o S_latest, imgIn.services)

\* C9: for a base reference with a registry or namespace path, the image name
\* in the tag is built from the last '/'-separated component only: no '/'
\* appears in target_image.
C9_LastComponentOnly ==
    (TagDerived /\ HasChar(imgIn.base, "/")) => ~HasChar(imgOut.tag, "/")

-----------------------------------------------------------------------------
(* ContainerConfig (ispawn/domain/container.py)                            *)

\* str(n) for a natural number
RECURSIVE IntStr(_)
IntStr(n) ==
    LET digit(d) == <<SubSeq(<<"0", "1", "2", "3", "4", "5", "6", "7", "8", "9">>, d + 1, d + 1)[1]>>
    IN  IF n < 10 THEN digit(n) ELSE IntStr(n \div 10) \o digit(n % 10)

\* os.path.join(a, b) for a relative b
OsPathJoin(a, b) ==
    IF a = <<>> THEN b
    ELSE IF a[Len(a)] = "/" THEN a \o b
    ELSE a \o <<"/">> \o b

\* the Service enum of domain/container.py: its members by name
CService ==
    [ JUPYTER |-> <<"Service.JUPYTER">>, RSTUDIO |-> <<"Service.RSTUDIO">>,
      VSCODE |-> <<"Service.VSCODE">> ]

\* the members of Service, and the value of a member
CServiceMembers == { CService[n] : n \in DOMAIN CService }
CServiceValue(m) ==
    CASE m = CService.JUPYTER -> S_jupyter
      [] m = CService.RSTUDIO -> S_rstudio
      [] m = CService.VSCODE -> S_vscode

\* Service.from_str of domain/container.py: cls(value.lower()), InvalidMode for ValueError
CService_from_str(value) ==
    LET v == Lower(value)
    IN  IF \E m \in CServiceMembers : CServiceValue(m) = v
        THEN CHOOSE m \in CServiceMembers : CServiceValue(m) = v
        ELSE InvalidMode

\* ContainerConfig._setup_log_dir: the first "<base>.<counter>" that does not exist
setup_log_dir(base_path, existing) ==
    LET free == { n \in 1..(Cardinality(existing) + 1) : base_path \o <<".">> \o IntStr(n) \notin existing }
        counter == CHOOSE n \in free : \A m \in free : n <= m
    IN  base_path \o <<".">> \o IntStr(counter)

\* fixed text of ContainerConfig: the container path and mode of the log mount, and
\* the parts of a service URL
ContainerText ==
    [ log_mount |-> <<":", "/", "v", "a", "r", "/", "l", "o", "g", "/", "i", "s", "p", "a", "w", "n", ":", "r", "w">>, https |-> <<"h", "t", "t", "p", "s", ":", "/", "/">>, token |-> <<"?", "t", "o", "k", "e", "n", "=">> ]

\* ContainerConfig.__init__: [err, obj, dirs]; a services entry is converted with
\* from_str when it is a str and kept when it is already a member
ContainerConfigInit(a, existing) ==
    LET services == [i \in 1..Len(a.services) |->
                        IF a.services[i] \in CServiceMembers THEN a.services[i]
                        ELSE CService_from_str(a.services[i])]
        raw_volumes == IF Truthy(a.volumes) THEN a.volumes ELSE <<PathHome>>
        volumes == [i \in 1..Len(raw_volumes) |->
                        raw_volumes[i] \o <<":">>
                            \o OsPathJoin(a.host_prefix, LStrip(raw_volumes[i], "/"))]
        log_dir == setup_log_dir(a.log_base_dir \o <<"/">> \o a.name, existing)
        logged == Truthy(a.log_base_dir)
        fail(e) == [dirs |-> existing, err |-> e, obj |-> NoObject]
    IN  IF a.cert_mode \notin {S_provided, S_letsencrypt} THEN fail("ValueError")
        ELSE IF \E i \in 1..Len(services) : services[i] = InvalidMode THEN fail("ValueError")
        ELSE [dirs |-> IF logged THEN existing \cup {log_dir} ELSE existing,
              err |-> "none",
              obj |-> [dns |-> NormDns(a.dns),
                       cert_mode |-> a.cert_mode,
                       domain |-> a.domain,
                       volumes |-> IF logged THEN Append(volumes, log_dir \o ContainerText.log_mount)
                                   ELSE volumes,
                       services |-> services,
                       host_prefix |-> a.host_prefix,
                       log_dir |-> IF logged THEN log_dir ELSE None,
                       raw_name |-> a.name,
                       container_name |-> a.ispawn_prefix \o <<"-">> \o a.name,
                       network_name |-> a.network_name,
                       image |-> a.image,
                       password |-> a.password]]


\* the fixed text of the labels of ContainerConfig.get_labels (the character ` is
\* written "<backquote>")
LabelText ==
    [ domain |-> <<"i", "s", "p", "a", "w", "n", ".", "d", "o", "m", "a", "i", "n", "=">>,
      services |-> <<"t", "r", "a", "e", "f", "i", "k", ".", "h", "t", "t", "p", ".", "s", "e", "r", "v", "i", "c", "e", "s", ".">>,
      container |-> <<"i", "s", "p", "a", "w", "n", ".", "c", "o", "n", "t", "a", "i", "n", "e", "r", "=">>,
      enable |-> <<"t", "r", "a", "e", "f", "i", "k", ".", "e", "n", "a", "b", "l", "e", "=", "t", "r", "u", "e">>,
      scheme |-> <<"t", "r", "a", "e", "f", "i", "k", ".", "h", "t", "t", "p", ".", "m", "i", "d", "d", "l", "e", "w", "a", "r", "e", "s", ".", "r", "e", "d", "i", "r", "e", "c", "t", "-", "t", "o", "-", "h", "t", "t", "p", "s", ".", "r", "e", "d", "i", "r", "e", "c", "t", "s", "c", "h", "e", "m", "e", ".", "s", "c", "h", "e", "m", "e", "=", "h", "t", "t", "p", "s">>,
      permanent |-> <<"t", "r", "a", "e", "f", "i", "k", ".", "h", "t", "t", "p", ".", "m", "i", "d", "d", "l", "e", "w", "a", "r", "e", "s", ".", "r", "e", "d", "i", "r", "e", "c", "t", "-", "t", "o", "-", "h", "t", "t", "p", "s", ".", "r", "e", "d", "i", "r", "e", "c", "t", "s", "c", "h", "e", "m", "e", ".", "p", "e", "r", "m", "a", "n", "e", "n", "t", "=", "t", "r", "u", "e">>,
      service |-> <<"i", "s", "p", "a", "w", "n", ".", "s", "e", "r", "v", "i", "c", "e", ".">>,
      is_true |-> <<"=", "t", "r", "u", "e">>,
      port |-> <<"i", "s", "p", "a", "w", "n", ".", "p", "o", "r", "t", ".">>,
      routers |-> <<"t", "r", "a", "e", "f", "i", "k", ".", "h", "t", "t", "p", ".", "r", "o", "u", "t", "e", "r", "s", ".">>,
      rule |-> <<".", "r", "u", "l", "e", "=", "H", "o", "s", "t", "(", "<backquote>">>,
      rule_end |-> <<"<backquote>", ")">>,
      entrypoints |-> <<".", "e", "n", "t", "r", "y", "p", "o", "i", "n", "t", "s", "=", "w", "e", "b", "s", "e", "c", "u", "r", "e">>,
      lb_port |-> <<".", "l", "o", "a", "d", "b", "a", "l", "a", "n", "c", "e", "r", ".", "s", "e", "r", "v", "e", "r", ".", "p", "o", "r", "t", "=">>,
      middlewares |-> <<".", "m", "i", "d", "d", "l", "e", "w", "a", "r", "e", "s", "=", "r", "e", "d", "i", "r", "e", "c", "t", "-", "t", "o", "-", "h", "t", "t", "p", "s">>,
      certresolver |-> <<".", "t", "l", "s", ".", "c", "e", "r", "t", "r", "e", "s", "o", "l", "v", "e", "r", "=", "l", "e", "t", "s", "e", "n", "c", "r", "y", "p", "t">>,
      tls |-> <<".", "t", "l", "s", "=", "t", "r", "u", "e">> ]

\* service_configs of ContainerConfig.get_labels
service_configs(service) ==
    CASE service = CService.JUPYTER -> [prefix |-> S_jupyter, port |-> 8888]
      [] service = CService.RSTUDIO -> [prefix |-> S_rstudio, port |-> 8787]
      [] service = CService.VSCODE -> [prefix |-> S_vscode, port |-> 8842]

\* the f-string of a router or load-balancer key: "<prefix>-<raw_name>"
RouterKey(self, service) == service_configs(service).prefix \o <<"-">> \o self.raw_name

\* the tls label of one service (get_labels, "TLS configuration")
tls_label_Always(self, service) ==
    LabelText.routers \o RouterKey(self, service) \o LabelText.certresolver

tls_label(self, service) ==
    IF self.cert_mode = S_letsencrypt
    THEN LabelText.routers \o RouterKey(self, service) \o LabelText.certresolver
    ELSE LabelText.routers \o RouterKey(self, service) \o LabelText.tls

\* the labels of one service, in the order they are appended
service_labels(self, service) ==
    LET config == service_configs(service)
        key == RouterKey(self, service)
    IN  << LabelText.service \o config.prefix \o LabelText.is_true,
           LabelText.port \o config.prefix \o <<"=">> \o IntStr(config.port),
           LabelText.routers \o key \o LabelText.rule
               \o key \o <<".">> \o self.domain \o LabelText.rule_end,
           LabelText.routers \o key \o LabelText.entrypoints,
           LabelText.services \o key \o LabelText.lb_port \o IntStr(config.port),
           LabelText.routers \o key \o LabelText.middlewares,
           tls_label(self, service) >>

\* ContainerConfig.get_labels
RECURSIVE ExtendLabels(_, _, _)
ExtendLabels(self, labels, todo) ==
    IF todo = <<>> THEN labels
    ELSE ExtendLabels(self, labels \o service_labels(self, Head(todo)), Tail(todo))

get_labels(self) ==
    ExtendLabels(self,
                 << LabelText.container \o self.raw_name,
                    LabelText.domain \o self.domain,
                    LabelText.enable, LabelText.scheme, LabelText.permanent >>,
                 self.services)

\* ContainerConfig.get_service_urls: a dict keyed by the Service member
get_service_urls(self) ==
    LET url(service) ==
            ContainerText.https \o CServiceValue(service) \o <<"-">> \o self.raw_name
                \o <<".">> \o self.domain
                \o (IF service = CService.JUPYTER THEN ContainerText.token \o self.password ELSE <<>>)
    IN  [service \in { self.services[i] : i \in 1..Len(self.services) } |-> url(service)]

\* Config.container_name_prefix and Config.domain_prefix: both read self.user, an
\* attribute that Config.__init__ never sets
PyTrue == <<"<True>">>
container_name_prefix(self) ==
    IF self.user_in_namespace = PyTrue
    THEN [err |-> "AttributeError", value |-> None]
    ELSE [err |-> "none", value |-> self.name \o <<"-">>]

domain_prefix(self) ==
    IF self.user_in_namespace = PyTrue
    THEN [err |-> "AttributeError", value |-> None]
    ELSE [err |-> "none", value |-> <<>>]

\* Service.port of domain/image.py: PORT of ispawn.domain.services.<value>.config,
\* None (found = FALSE) when there is no such module
ServicePort(value) ==
    CASE value = S_jupyter -> [port |-> 8888, found |-> TRUE]
      [] value = S_jupyterhub -> [port |-> 8000, found |-> TRUE]
      [] value = S_jupyterlab -> [port |-> 8889, found |-> TRUE]
      [] value = S_vscode -> [port |-> 8042, found |-> TRUE]
      [] OTHER -> [port |-> 0, found |-> FALSE]

\* Service.volumes of domain/image.py: the number of entries of VOLUMES, 0 when
\* there is no such module
ServiceVolumeCount(value) ==
    CASE value = S_jupyter -> 3
      [] value = S_jupyterhub -> 5
      [] value = S_jupyterlab -> 3
      [] value = S_vscode -> 2
      [] OTHER -> 0


-----------------------------------------------------------------------------
(* Building the ContainerConfig of a run                                   *)

\* values of a run request
RunText ==
    [ a |-> <<"a">>, JUPYTER |-> <<"J", "U", "P", "Y", "T", "E", "R">>, ab |-> <<"a", "b">>, pw |-> <<"p", "w">>,
      logs |-> <<"/", "l", "o", "g", "s">>, nope |-> <<"n", "o", "p", "e">> ]

\* the Config the run is made under: local mode, with and without the user in the
\* namespace, without and with a default mount
RunConfigArgs(u, with_volumes) ==
    [MkArgs(S_user, S_local, S_demo_localhost, None, None,
            [dns |-> None, mount_point |-> S_mnt, home_prefix |-> S_home, volumes |-> IF with_volumes THEN << <<S_home_dir, S_mnt \o S_home_dir>> >> ELSE None,
             env_chunk_path |-> None,
             cert_dir |-> None])
        EXCEPT !.user_in_namespace = u]

\* the arguments of ContainerConfig(...) for a run under config
MkContainerArgs(config, name, services, volumes, log_base_dir, cert_mode) ==
    [ dns |-> config.dns, cert_mode |-> cert_mode, domain |-> config.domain,
      name |-> name, volumes |-> volumes, services |-> services,
      host_prefix |-> S_mnt, log_base_dir |-> log_base_dir, ispawn_prefix |-> config.name,
      network_name |-> config.name, image |-> S_ubuntu_latest, password |-> RunText.pw ]

\* the values a run request is made with
ContainerInputs ==
    [ cert_mode |-> << S_provided, S_letsencrypt, S_invalid >>,
      name |-> <<RunText.a, RunText.ab>>,
      volumes |-> << None, <<S_home_dir, S_data>> >>,
      services |-> << <<>>, <<S_jupyter>>, <<RunText.JUPYTER, S_vscode>>,
                      <<CService.RSTUDIO, S_vscode, S_jupyter>>, <<RunText.nope>> >>,
      log_base_dir |-> << None, RunText.logs >> ]

\* the number of host directories up to which runs keep making log directories
MaxDirs == 3

\* container_config = ContainerConfig(**a)
NewContainerConfig(a) ==
    /\ Truthy(a.log_base_dir) => Cardinality(dirs) < MaxDirs
    /\ LET r == ContainerConfigInit(a, dirs)
       IN  /\ ccIn' = a
           /\ cc' = r.obj
           /\ dirs' = r.dirs
           /\ res' = [op |-> "ContainerConfig", err |-> r.err]
    /\ UNCHANGED <<kwargs, cfg, files, loaded, imgIn, imgOut, volIn, volOut, engine, calls>>

InitContainer ==
    /\ \E u \in {PyFalse, PyTrue}, v \in BOOLEAN : kwargs = RunConfigArgs(u, v)
    /\ cfg = ConfigInit(kwargs).obj
    /\ dirs = {kwargs.name}
    /\ files = NoFiles /\ loaded = NoObject /\ res = Idle
    /\ imgIn = Unset /\ imgOut = Unset /\ volIn = Unset /\ volOut = Unset
    /\ RunIdle

NextContainer ==
    \E n \in DOMAIN ContainerInputs.name, s \in DOMAIN ContainerInputs.services,
       v \in DOMAIN ContainerInputs.volumes, l \in DOMAIN ContainerInputs.log_base_dir,
       c \in DOMAIN ContainerInputs.cert_mode :
        NewContainerConfig(MkContainerArgs(cfg, ContainerInputs.name[n],
                                           ContainerInputs.services[s],
                                           ContainerInputs.volumes[v],
                                           ContainerInputs.log_base_dir[l],
                                           ContainerInputs.cert_mode[c]))

SpecContainer == InitContainer /\ [][NextContainer]_vars

\* the host path of a "host:container[:mode]" volume string
VolumeSource(v) == Split(v, ":")[1]

\* the mounts the configuration declares for every run (Config.volumes)
DefaultMounts == IF Truthy(cfg.volumes) THEN cfg.volumes ELSE <<>>

\* the host paths the run request supplies
RunMounts == IF ccIn.volumes = None THEN <<>> ELSE ccIn.volumes

RECURSIVE ServicePairs(_)
ServicePairs(services) ==
    IF services = <<>> THEN 0
    ELSE ServiceVolumeCount(CServiceValue(Head(services))) + ServicePairs(Tail(services))

\* C13: the mount list of a run is, in this order, the global default mounts, the
\* run-supplied mounts, the log-directory mount of the run, and one binding per
\* (service, logical volume) pair
C13_MountOrder ==
    (res.op = "ContainerConfig" /\ cc # NoObject) =>
        LET nd == Len(DefaultMounts)
            nr == Len(RunMounts)
            nl == IF Truthy(ccIn.log_base_dir) THEN 1 ELSE 0
        IN  /\ Len(cc.volumes) = nd + nr + nl + ServicePairs(cc.services)
            /\ \A i \in 1..nd : VolumeSource(cc.volumes[i]) = DefaultMounts[i][1]
            /\ \A i \in 1..nr : VolumeSource(cc.volumes[nd + i]) = RunMounts[i]
            /\ nl = 1 => VolumeSource(cc.volumes[nd + nr + 1]) = cc.log_dir


\* a ContainerConfig has been built by the last step
Built == res.op = "ContainerConfig" /\ cc # NoObject

\* C14: the container name is namespaceName-runName without the user in the
\* namespace and namespaceName-user-runName with it, and is defined in both cases
C14_ContainerName ==
    Built =>
        LET p == container_name_prefix(cfg)
        IN  /\ p.err = "none"
            /\ cc.container_name = p.value \o cc.raw_name
            /\ cfg.user_in_namespace # PyTrue => p.value = cfg.name \o <<"-">>
            /\ cfg.user_in_namespace = PyTrue =>
                   /\ StartsWith(p.value, cfg.name \o <<"-">>)
                   /\ EndsWith(p.value, <<"-">>)
                   /\ Len(p.value) > Len(cfg.name) + 2

\* the labels of the routers' host rules and of the load-balancer ports, in label order
IsRuleLabel(label) ==
    StartsWith(label, LabelText.routers) /\ HasSub(label, LabelText.rule)
IsPortLabel(label) ==
    StartsWith(label, LabelText.services) /\ HasSub(label, LabelText.lb_port)
RuleLabels == SelectSeq(get_labels(cc), IsRuleLabel)
PortLabels == SelectSeq(get_labels(cc), IsPortLabel)

\* the identifier in "traefik.http.routers.<id>. ..." / "traefik.http.services.<id>. ..."
KeyOf(label) == Split(label, ".")[4]
\* the domain in "...rule=Host(`<domain>`)"
RuleDomain(label) == Split(label, "<backquote>")[2]
\* the domain of "https://<domain>[?query]"
UrlDomain(url) == Split(SubSeq(url, Len(ContainerText.https) + 1, Len(url)), "?")[1]
\* the value of a "key=value" label
LabelValue(label) == Split(label, "=")[2]

\* C15: for every requested service the host rule and the reported URL use the domain
\* userPrefix + serviceId-runName.domain, userPrefix being "user-" when the namespace
\* includes the user and empty otherwise; both carry the same string
C15_ServiceDomain ==
    Built =>
        LET p == domain_prefix(cfg)
            urls == get_service_urls(cc)
        IN  /\ p.err = "none"
            /\ cfg.user_in_namespace = PyTrue => Len(p.value) > 1 /\ EndsWith(p.value, <<"-">>)
            /\ cfg.user_in_namespace # PyTrue => p.value = <<>>
            /\ Len(RuleLabels) = Len(cc.services)
            /\ \A i \in 1..Len(cc.services) :
                   LET d == p.value \o CServiceValue(cc.services[i]) \o <<"-">>
                                \o ccIn.name \o <<".">> \o cfg.domain
                   IN  /\ RuleDomain(RuleLabels[i]) = d
                       /\ UrlDomain(urls[cc.services[i]]) = d

\* C16: a requested service has a .tls.certresolver key exactly when the certificate
\* strategy is letsencrypt; under any other strategy its router carries .tls=true and
\* no certresolver key
C16_TlsLabels ==
    Built =>
        LET labels == get_labels(cc)
            router(i) == LabelText.routers \o CServiceValue(cc.services[i])
                             \o <<"-">> \o ccIn.name
            resolver(i) == \E k \in 1..Len(labels) :
                               StartsWith(labels[k], router(i) \o SubSeq(LabelText.certresolver, 1, 17))
            flag(i) == \E k \in 1..Len(labels) : labels[k] = router(i) \o LabelText.tls
        IN  \A i \in 1..Len(cc.services) :
                /\ resolver(i) <=> ccIn.cert_mode = S_letsencrypt
                /\ ccIn.cert_mode # S_letsencrypt => flag(i) /\ ~resolver(i)

C16_Witness ==
    /\ Built /\ Len(cc.services) >= 2
    /\ ccIn.cert_mode = S_letsencrypt
    /\ \E k \in 1..Len(get_labels(cc)) : EndsWith(get_labels(cc)[k], LabelText.certresolver)

\* C17: two distinct requested services of a container get different router
\* identifiers and different load-balancer identifiers, and every such identifier
\* contains both the container name and the service identifier
C17_UniqueKeys ==
    Built =>
        /\ Len(RuleLabels) = Len(cc.services) /\ Len(PortLabels) = Len(cc.services)
        /\ \A i, j \in 1..Len(cc.services) :
               cc.services[i] # cc.services[j] =>
                   /\ KeyOf(RuleLabels[i]) # KeyOf(RuleLabels[j])
                   /\ KeyOf(PortLabels[i]) # KeyOf(PortLabels[j])
        /\ \A i \in 1..Len(cc.services) :
               \A key \in {KeyOf(RuleLabels[i]), KeyOf(PortLabels[i])} :
                   /\ HasSub(key, cc.container_name)
                   /\ HasSub(key, CServiceValue(cc.services[i]))

\* C18: the load-balancer port label of every requested service carries the PORT the
\* service catalog records for that service
C18_CatalogPort ==
    Built =>
        /\ Len(PortLabels) = Len(cc.services)
        /\ \A i \in 1..Len(cc.services) :
               LET catalog == ServicePort(CServiceValue(cc.services[i]))
               IN  /\ catalog.found
                   /\ LabelValue(PortLabels[i]) = IntStr(catalog.port)


-----------------------------------------------------------------------------
(* ContainerService (ispawn/services/container.py)                         *)

\* the container engine: the containers in creation order, each a record
\* [name, status, image, network, environment, labels, mounts]; names are unique

\* client.containers.get(name): the position of the container, 0 for docker.errors.NotFound
EngineGet(containers, name) ==
    IF \E i \in 1..Len(containers) : containers[i].name = name
    THEN CHOOSE i \in 1..Len(containers) : containers[i].name = name
    ELSE 0

EngineRemove(containers, i) ==
    SubSeq(containers, 1, i - 1) \o SubSeq(containers, i + 1, Len(containers))

\* fixed text of ContainerService
EngineText ==
    [ rule |-> <<"r", "u", "l", "e">>, running |-> <<"r", "u", "n", "n", "i", "n", "g">>, exited |-> <<"e", "x", "i", "t", "e", "d">>,
      bind |-> <<"b", "i", "n", "d">>, Host |-> <<"H", "o", "s", "t", "(", "<backquote>">>, traefik |-> <<"-", "t", "r", "a", "e", "f", "i", "k">> ]

KeepRunning_IgnoreForce(status, force) == status = EngineText.running

\* "if container.status == 'running' and not force: ... return"
KeepRunning(status, force) == status = EngineText.running /\ ~force

\* ContainerService.remove_container: [engine, calls, err]; ok is whether the engine
\* carries out container.remove
remove_container(containers, container_id, force, ok) ==
    LET i == EngineGet(containers, container_id)
        got == <<[name |-> container_id, call |-> "get"]>>
    IN  IF i = 0 THEN [engine |-> containers, calls |-> got, err |-> "none"]
        ELSE IF KeepRunning(containers[i].status, force)
        THEN [engine |-> containers, calls |-> got, err |-> "none"]
        ELSE [engine |-> IF ok THEN EngineRemove(containers, i) ELSE containers,
              calls |-> Append(got, [name |-> container_id, call |-> "remove"]),
              err |-> IF ok THEN "none" ELSE "APIError"]

\* the Mount of one entry of config.volumes
MountOf(volume) ==
    LET mode == IF Len(volume) = 3 THEN volume[3] ELSE S_rw
    IN  [target |-> volume[2], source |-> volume[1], type |-> EngineText.bind,
         read_only |-> (mode = S_ro)]

RefuseExisting_Never(existing, force) == FALSE

\* "if existing: if force: ... else: raise ContainerError"
RefuseExisting(existing, force) == existing /\ ~force

\* ContainerService.run_container: [engine, calls, err]; remove_ok and run_ok are
\* whether the engine carries out the removal and client.containers.run (which the
\* engine refuses for a name that is in use)
run_container(containers, config, force, remove_ok, run_ok) ==
    LET got == <<[name |-> config.container_name, call |-> "get"]>>
        existing == EngineGet(containers, config.container_name) # 0
        removal == IF existing
                   THEN remove_container(containers, config.container_name, TRUE, remove_ok)
                   ELSE [engine |-> containers, calls |-> <<>>, err |-> "none"]
        mounts == [k \in 1..Len(config.volumes) |-> MountOf(config.volumes[k])]
        done == run_ok /\ EngineGet(removal.engine, config.container_name) = 0
        started == [name |-> config.container_name,
                    image |-> config.image_config.target_image,
                    labels |-> config.labels,
                    status |-> EngineText.running,
                    mounts |-> mounts,
                    environment |-> config.environment,
                    network |-> config.config.network_name]
    IN  IF RefuseExisting(existing, force)
        THEN [engine |-> containers, calls |-> got, err |-> "ContainerError"]
        ELSE IF removal.err # "none"
        THEN [engine |-> removal.engine, calls |-> got \o removal.calls, err |-> removal.err]
        ELSE [engine |-> IF done THEN Append(removal.engine, started) ELSE removal.engine,
              calls |-> (got \o removal.calls)
                            \o <<[name |-> config.container_name, call |-> "run"]>>,
              err |-> IF done THEN "none" ELSE "APIError"]

\* the service URLs list_containers reads from the labels of a container:
\* keys matching traefik\.http\.routers\.([^.]+)\.rule whose identifier matches
\* ^<container name>-(.+)$ and whose value contains Host(`<domain>`)
ServiceUrl(name, label) ==
    LET parts == Split(label[1], ".")
        service_id == parts[4]
        value == Split(label[2], "<backquote>")
    IN  IF /\ StartsWith(label[1], LabelText.routers)
           /\ Len(parts) >= 5 /\ service_id # <<>> /\ StartsWith(parts[5], EngineText.rule)
           /\ StartsWith(service_id, name \o <<"-">>) /\ Len(service_id) > Len(name) + 1
           /\ Len(value) >= 3 /\ EndsWith(value[1], EngineText.Host) /\ value[2] # <<>>
           /\ StartsWith(value[3], <<")">>)
        THEN <<ContainerText.https \o value[2]>>
        ELSE <<>>

RECURSIVE ServiceUrls(_, _)
ServiceUrls(name, labels) ==
    IF labels = <<>> THEN <<>>
    ELSE ServiceUrl(name, Head(labels)) \o ServiceUrls(name, Tail(labels))

\* ContainerService.list_containers: [err, out]; running is None, PyTrue or PyFalse
list_containers(config, containers, running) ==
    LET wanted(c) == \/ running = None
                     \/ running = PyTrue /\ c.status = EngineText.running
                     \/ running = PyFalse /\ c.status # EngineText.running
        prefix == container_name_prefix(config)
        listed(c) == /\ wanted(c)
                     /\ StartsWith(c.name, prefix.value)
                     /\ ~EndsWith(c.name, EngineText.traefik)
        info(c) == [name |-> c.name, image |-> c.image,
                    status |-> c.status, urls |-> ServiceUrls(c.name, c.labels)]
        kept == SelectSeq(containers, listed)
    IN  IF prefix.err # "none" /\ \E i \in 1..Len(containers) : wanted(containers[i])
        THEN [err |-> prefix.err, out |-> None]
        ELSE [err |-> "none", out |-> [k \in 1..Len(kept) |-> info(kept[k])]]


\* the container names of the runs
RunNames == << S_ispawn \o <<"-", "a">>, S_ispawn \o <<"-", "a", "-", "t", "r", "a", "e", "f", "i", "k">> >>

\* the label of the host rule of service jupyter of a run, as a (key, value) item:
\* under the router identifier "<container name>-jupyter" or "jupyter-<run name>"
RuleItem(name, named_by_container) ==
    LET run == SubSeq(name, Len(S_ispawn) + 2, Len(name))
        id == IF named_by_container THEN name \o <<"-">> \o S_jupyter
              ELSE S_jupyter \o <<"-">> \o run
    IN  << LabelText.routers \o id \o <<".", "r", "u", "l", "e">>,
           EngineText.Host \o S_jupyter \o <<"-">> \o run \o <<".">> \o S_demo_localhost
               \o LabelText.rule_end >>

\* what run_container reads from the container configuration of a run
RunPlan(name, first) ==
    [ volumes |-> IF first
                  THEN << <<S_data, S_mnt \o S_data>>,
                          <<S_home_dir, S_mnt \o S_home_dir, S_ro>>,
                          <<S_work, S_mnt \o S_work, S_rw>> >>
                  ELSE << <<S_home_dir, S_mnt \o S_home_dir, S_ro>>,
                          <<S_data, S_mnt \o S_data>> >>,
      config |-> [network_name |-> S_ispawn],
      container_name |-> name,
      labels |-> << <<LabelText.container, name>>, RuleItem(name, first) >>,
      image_config |-> [target_image |-> S_ubuntu_latest],
      environment |-> << <<<<"P", "A", "S", "S", "W", "O", "R", "D">>, RunText.pw>> >> ]

\* container_service.run_container(container_config, force)
RunContainer(config, force, remove_ok, run_ok) ==
    /\ LET r == run_container(engine, config, force, remove_ok, run_ok)
       IN  /\ engine' = r.engine
           /\ calls' = r.calls
           /\ res' = [op |-> "run_container", err |-> r.err, config |-> config,
                      force |-> force]
    /\ UNCHANGED <<kwargs, cfg, files, loaded, dirs, imgIn, imgOut, volIn, volOut, ccIn, cc>>

\* ContainerService.stop_container
StopContainer(container_id) ==
    /\ LET i == EngineGet(engine, container_id)
           got == <<[name |-> container_id, call |-> "get"]>>
       IN  IF i = 0
           THEN /\ engine' = engine
                /\ calls' = got
                /\ res' = [op |-> "stop_container", err |-> "NotFound", id |-> container_id]
           ELSE /\ engine' = [engine EXCEPT ![i].status = EngineText.exited]
                /\ calls' = Append(got, [name |-> container_id, call |-> "stop"])
                /\ res' = [op |-> "stop_container", err |-> "none", id |-> container_id]
    /\ UNCHANGED <<kwargs, cfg, files, loaded, dirs, imgIn, imgOut, volIn, volOut, ccIn, cc>>

\* ContainerService.start_container
StartContainer(container_id) ==
    /\ LET i == EngineGet(engine, container_id)
           got == <<[name |-> container_id, call |-> "get"]>>
       IN  IF i = 0 \/ engine[i].status = EngineText.running
           THEN engine' = engine /\ calls' = got
           ELSE /\ engine' = [engine EXCEPT ![i].status = EngineText.running]
                /\ calls' = Append(got, [name |-> container_id, call |-> "start"])
    /\ res' = [op |-> "start_container", err |-> "none", id |-> container_id]
    /\ UNCHANGED <<kwargs, cfg, files, loaded, dirs, imgIn, imgOut, volIn, volOut, ccIn, cc>>

\* container_service.remove_container(container_id, force)
RemoveContainer(container_id, force, ok) ==
    /\ LET r == remove_container(engine, container_id, force, ok)
       IN  /\ engine' = r.engine
           /\ calls' = r.calls
           /\ res' = [op |-> "remove_container", err |-> r.err, force |-> force,
                      id |-> container_id]
    /\ UNCHANGED <<kwargs, cfg, files, loaded, dirs, imgIn, imgOut, volIn, volOut, ccIn, cc>>

\* container_service.list_containers(running)
ListContainers(running) ==
    /\ LET r == list_containers(cfg, engine, running)
       IN  res' = [op |-> "list_containers", err |-> r.err, out |-> r.out,
                   running |-> running]
    /\ calls' = <<[name |-> None, call |-> "list"]>>
    /\ UNCHANGED <<kwargs, cfg, files, loaded, dirs, imgIn, imgOut, volIn, volOut, ccIn, cc,
                   engine>>

InitRun ==
    /\ \E u \in {PyFalse, PyTrue} : kwargs = RunConfigArgs(u, FALSE)
    /\ cfg = ConfigInit(kwargs).obj
    /\ dirs = {kwargs.name}
    /\ files = NoFiles /\ loaded = NoObject /\ res = Idle
    /\ imgIn = Unset /\ imgOut = Unset /\ volIn = Unset /\ volOut = Unset
    /\ RunIdle

NextRun ==
    \/ \E n \in DOMAIN RunNames, first, force, remove_ok, run_ok \in BOOLEAN :
           RunContainer(RunPlan(RunNames[n], first), force, remove_ok, run_ok)
    \/ \E n \in DOMAIN RunNames : StopContainer(RunNames[n])
    \/ \E n \in DOMAIN RunNames : StartContainer(RunNames[n])
    \/ \E n \in DOMAIN RunNames, force, ok \in BOOLEAN : RemoveContainer(RunNames[n], force, ok)
    \/ \E running \in {None, PyTrue, PyFalse} : ListContainers(running)

SpecRun == InitRun /\ [][NextRun]_vars


\* the containers of the engine that bear a name
Bearing(containers, name) == { k \in 1..Len(containers) : containers[k].name = name }

\* the positions of the calls of one kind among the engine calls of the last operation
CallsOf(cs, kind) == { k \in 1..Len(cs) : cs[k].call = kind }

\* every container was started with the mounts of its plan, in the order of the plan's
\* volume list, read-only exactly for mode "ro"
MountsFollowPlan ==
    (res.op = "run_container" /\ res.err = "none") =>
        LET c == engine[Len(engine)]
            volumes == res.config.volumes
        IN  /\ Len(c.mounts) = Len(volumes)
            /\ \A k \in 1..Len(volumes) :
                   /\ c.mounts[k].source = volumes[k][1]
                   /\ c.mounts[k].target = volumes[k][2]
                   /\ c.mounts[k].read_only <=> (Len(volumes[k]) = 3 /\ volumes[k][3] = S_ro)

\* C19: run_container for a name that already exists, without force, raises
\* ContainerError, removes nothing and starts nothing: the containers are unchanged
C19_RefuseWithoutForce ==
    [][(/\ res'.op = "run_container"
        /\ ~res'.force
        /\ Bearing(engine, res'.config.container_name) # {})
           => /\ res'.err = "ContainerError"
              /\ engine' = engine
              /\ CallsOf(calls', "remove") = {} /\ CallsOf(calls', "run") = {}]_vars

C19_Witness ==
    /\ res.op = "run_container" /\ ~res.force /\ res.err = "ContainerError"
    /\ Bearing(engine, res.config.container_name) # {}
    /\ \E k \in Bearing(engine, res.config.container_name) :
           engine[k].mounts # [j \in 1..Len(res.config.volumes) |-> MountOf(res.config.volumes[j])]

-----------------------------------------------------------------------------
(* target_image on base references with several ':'                        *)

\* C30: target_image raises for no base reference, and for a base with one or more
\* ':' (a registry host with a port included) the part after the last ':' is the
\* base tag of the result
C30_TargetImageTotal ==
    (imgOut # Unset /\ Constructible) =>
        /\ imgOut.err = "none"
        /\ HasChar(imgIn.base, ":") =>
               LET last == CHOOSE i \in Colons(imgIn.base) : \A j \in Colons(imgIn.base) : j <= i
                   base_name == SubSeq(imgIn.base, 1, last - 1)
                   base_tag == SubSeq(imgIn.base, last + 1, Len(imgIn.base))
               IN  \E o \in Orderings(imgIn.services) :
                       /\ IsAscending(o)
                       /\ imgOut.tag = imgIn.config.name \o <<"-">> \o base_name \o <<":">>
                                            \o base_tag \o <<"-">> \o Join(o, <<"-">>)


-----------------------------------------------------------------------------
(* side effects of a rejected Config                                       *)

\* C27: a Config(...) call that raises ConfigurationError has created no directory:
\* the host directories after the call are those that existed before it
C27_RejectedConfigMakesNoDirectory ==
    [][(res'.op = "init" /\ res'.err = "ConfigurationError") => dirs' = dirs]_vars


-----------------------------------------------------------------------------
(* The cli group callback (ispawn/main.py)                                 *)

\* the subcommands cli is invoked with
CliText == [ run |-> <<"r", "u", "n">>, setup |-> <<"s", "e", "t", "u", "p">> ]

\* configuration files earlier saves have left in a scope: none, or to_yaml of a Config
StoredConfigs(im) ==
    << None,
       to_yaml(ConfigInit(SetupOpt(im, S_local, S_demo_localhost, None, None, <<S_data>>)).obj),
       to_yaml(ConfigInit(SetupOpt(im, S_remote, S_demo_localhost, S_provided, None, <<S_data>>)).obj),
       to_yaml(ConfigInit(SetupOpt(im, S_remote, S_example_com, S_provided, None, <<S_data>>)).obj),
       to_yaml(ConfigInit(SetupOpt(im, S_remote, S_example_com, S_letsencrypt, S_email, <<S_data>>)).obj),
       to_yaml(ConfigInit(SetupOpt(im, S_local, S_demo_localhost, None, None, <<>>)).obj) >>

\* cli(ctx, ..., user): Config.load(user_mode=user), then Config.load(user_mode=not user)
\* when that returned None; sys.exit(1) when neither scope has a configuration and the
\* subcommand is not setup
Cli(user, invoked_subcommand) ==
    LET preferred == IF user THEN "user" ELSE "system"
        other == IF user THEN "system" ELSE "user"
        scope == IF files[preferred] # None THEN preferred
                 ELSE IF files[other] # None THEN other ELSE "none"
        r == IF scope = "none" THEN [err |-> "none", made |-> FALSE, obj |-> NoObject]
             ELSE from_yaml(files[scope])
    IN  /\ loaded' = r.obj
        /\ dirs' = IF r.made THEN dirs \cup {files[scope].name} ELSE dirs
        /\ res' = [op |-> "cli",
                   err |-> IF r.err # "none" THEN r.err
                           ELSE IF scope = "none" /\ invoked_subcommand # CliText.setup
                           THEN "SystemExit" ELSE "none",
                   scope |-> scope, user |-> user]
        /\ UNCHANGED <<kwargs, cfg, files, imgIn, imgOut, volIn, volOut>>
        /\ UNCHANGED runVars

InitCli ==
    /\ \E i \in DOMAIN StoredConfigs(S_user), j \in DOMAIN StoredConfigs(S_system) :
           files = [s \in {"user", "system"} |->
                       IF s = "user" THEN StoredConfigs(S_user)[i] ELSE StoredConfigs(S_system)[j]]
    /\ kwargs = SetupOpt(S_user, S_local, S_demo_localhost, None, None, <<S_data>>)
    /\ cfg = NoObject /\ loaded = NoObject /\ res = Idle /\ dirs = {}
    /\ imgIn = Unset /\ imgOut = Unset /\ volIn = Unset /\ volOut = Unset
    /\ RunIdle

NextCli ==
    \E user \in BOOLEAN, sub \in DOMAIN CliText : Cli(user, CliText[sub])

SpecCli == InitCli /\ [][NextCli]_vars

\* the two scopes both hold a configuration and the two differ in a field other than
\* the scope itself
ScopesDisagree ==
    /\ files["user"] # None /\ files["system"] # None
    /\ \E k \in DOMAIN files["user"] \ {"install_mode"} : files["user"][k] # files["system"][k]

\* C22: loading uses the one explicitly chosen scope, and fails with
\* ConfigurationError when the user-scope and the system-scope configuration disagree
C22_ScopeDisagreement ==
    res.op = "cli" =>
        /\ ScopesDisagree => res.err = "ConfigurationError" /\ loaded = NoObject
        /\ loaded # NoObject => res.scope = (IF res.user THEN "user" ELSE "system")

\* what cli does: the preferred scope when it has a file, else the other, disagreement or not
C22_PreferredThenOther ==
    res.op = "cli" =>
        /\ res.err \in {"none", "SystemExit"}
        /\ (files["user"] # None \/ files["system"] # None) =>
               /\ loaded # NoObject
               /\ files[IF res.user THEN "user" ELSE "system"] # None =>
                      res.scope = (IF res.user THEN "user" ELSE "system")

-----------------------------------------------------------------------------
(* names and domains of runs of different users                            *)

\* the users that make runs
RunUsers == << <<"a">>, <<"a", "-", "b">> >>

\* the ContainerConfig of a run named name made by user under the Config of the last
\* run: the user is the account of the process and is no argument of
\* ContainerConfig(...), whose names are built from ispawn_prefix and name alone
RunOfUser(user, name) == ContainerConfigInit([ccIn EXCEPT !.name = name], dirs).obj

\* the domain of the host rule of the first service of a run
FirstRuleDomain(run) == RuleDomain(SelectSeq(get_labels(run), IsRuleLabel)[1])

\* C28: with the user in the namespace the prefixes are defined, two runs that differ in
\* (user, runName) get different container names, and two runs of one service that
\* differ in (user, runName) get different domains
C28_InjectiveNames ==
    (Built /\ cfg.user_in_namespace = PyTrue /\ cc.services # <<>>) =>
        /\ container_name_prefix(cfg).err = "none"
        /\ domain_prefix(cfg).err = "none"
        /\ \A u1, u2 \in DOMAIN RunUsers, n1, n2 \in DOMAIN ContainerInputs.name :
               <<u1, n1>> # <<u2, n2>> =>
                   LET r1 == RunOfUser(RunUsers[u1], ContainerInputs.name[n1])
                       r2 == RunOfUser(RunUsers[u2], ContainerInputs.name[n2])
                   IN  /\ r1.container_name # r2.container_name
                       /\ FirstRuleDomain(r1) # FirstRuleDomain(r2)

\* runs that differ in runName get different container names and domains
C28_InjectiveInRunName ==
    (Built /\ cfg.user_in_namespace = PyTrue /\ cc.services # <<>>) =>
        \A u \in DOMAIN RunUsers, n1, n2 \in DOMAIN ContainerInputs.name :
            n1 # n2 =>
                LET r1 == RunOfUser(RunUsers[u], ContainerInputs.name[n1])
                    r2 == RunOfUser(RunUsers[u], ContainerInputs.name[n2])
                IN  /\ r1.container_name # r2.container_name
                    /\ FirstRuleDomain(r1) # FirstRuleDomain(r2)

-----------------------------------------------------------------------------
(* DockerService (ispawn/services/docker.py)                               *)

\* client.containers.list(all=True, filters={"name": name}): the positions of the
\* containers the engine's name filter lets through, which are those whose name
\* contains the value
NameFilter(containers, name) == { k \in 1..Len(containers) : HasSub(containers[k].name, name) }

\* the ContainerConfig DockerService.run_container is given
DockerPlan(name, services) ==
    ContainerConfigInit(MkContainerArgs(cfg, name, services, None, None, S_provided), dirs).obj

\* the container client.containers.run(**container_config) starts
DockerStarted(config) ==
    LET parts(k) == Split(config.volumes[k], ":")
        values == [i \in 1..Len(config.services) |-> CServiceValue(config.services[i])]
    IN  [ name |-> config.container_name,
          status |-> EngineText.running,
          image |-> config.image,
          environment |-> [PASSWORD |-> config.password, SERVICES |-> Join(values, <<",">>)],
          labels |-> get_labels(config),
          network |-> config.network_name,
          mounts |-> [k \in 1..Len(config.volumes) |->
                         [source |-> parts(k)[1], bind |-> parts(k)[2],
                          mode |-> IF Len(parts(k)) > 2 THEN parts(k)[3] ELSE S_rw]] ]

\* DockerService.remove_container(name, force=True): [engine, calls, err]; first is the
\* container the engine lists first among the filtered ones
docker_remove_container(containers, name, first, ok) ==
    LET listed == <<[call |-> "list", name |-> name]>>
    IN  IF NameFilter(containers, name) = {}
        THEN [engine |-> containers, calls |-> listed, err |-> "none"]
        ELSE [engine |-> IF ok THEN EngineRemove(containers, first) ELSE containers,
              calls |-> Append(listed, [call |-> "remove", name |-> containers[first].name]),
              err |-> IF ok THEN "none" ELSE "ContainerError"]

\* DockerService.run_container(config, force): outcome is what client.containers.run
\* does when the name is free ("ok", "ImageNotFound" or "APIError"); the engine refuses
\* a name that is in use with an APIError
DockerRunContainer(config, force, first, remove_ok, outcome) ==
    LET name == config.container_name
        existing == NameFilter(engine, name) # {}
        removal == IF existing THEN docker_remove_container(engine, name, first, remove_ok)
                   ELSE [engine |-> engine, calls |-> <<>>, err |-> "none"]
        listed == <<[call |-> "list", name |-> name]>>
        in_use == \E k \in 1..Len(removal.engine) : removal.engine[k].name = name
        ran == IF in_use THEN "APIError" ELSE outcome
    IN  /\ existing => first \in NameFilter(engine, name)
        /\ ~existing => first = 1 /\ remove_ok
        /\ (existing /\ (~force \/ ~remove_ok)) => outcome = "ok"
        /\ IF existing /\ ~force
           THEN /\ engine' = engine
                /\ calls' = listed
                /\ res' = [op |-> "DockerService.run_container", name |-> name,
                           force |-> force, err |-> "ContainerError", raised |-> "exists"]
           ELSE IF removal.err # "none"
           THEN /\ engine' = removal.engine
                /\ calls' = listed \o removal.calls
                /\ res' = [op |-> "DockerService.run_container", name |-> name,
                           force |-> force, err |-> removal.err, raised |-> "remove"]
           ELSE /\ engine' = IF ran = "ok" THEN Append(removal.engine, DockerStarted(config))
                             ELSE removal.engine
                /\ calls' = (listed \o removal.calls) \o <<[call |-> "run", name |-> name]>>
                /\ res' = [op |-> "DockerService.run_container", name |-> name,
                           force |-> force, raised |-> "run",
                           err |-> CASE ran = "ok" -> "none"
                                     [] ran = "ImageNotFound" -> "ImageError"
                                     [] OTHER -> "ContainerError"]
        /\ UNCHANGED <<kwargs, cfg, files, loaded, dirs, imgIn, imgOut, volIn, volOut, ccIn, cc>>

\* DockerService.remove_container(name)
DockerRemoveContainer(name, first, ok) ==
    LET r == docker_remove_container(engine, name, first, ok)
    IN  /\ NameFilter(engine, name) # {} => first \in NameFilter(engine, name)
        /\ NameFilter(engine, name) = {} => first = 1 /\ ok
        /\ engine' = r.engine
        /\ calls' = r.calls
        /\ res' = [op |-> "DockerService.remove_container", name |-> name, force |-> TRUE,
                   err |-> r.err, raised |-> IF r.err = "none" THEN "none" ELSE "remove"]
        /\ UNCHANGED <<kwargs, cfg, files, loaded, dirs, imgIn, imgOut, volIn, volOut, ccIn, cc>>

NextDocker ==
    \/ \E n \in DOMAIN ContainerInputs.name, s \in 2..3, first \in (1..Len(engine)) \cup {1},
          force, remove_ok \in BOOLEAN, outcome \in {"ok", "ImageNotFound", "APIError"} :
           DockerRunContainer(DockerPlan(ContainerInputs.name[n], ContainerInputs.services[s]),
                              force, first, remove_ok, outcome)
    \/ \E n \in DOMAIN ContainerInputs.name, first \in (1..Len(engine)) \cup {1}, ok \in BOOLEAN :
           DockerRemoveContainer(DockerPlan(ContainerInputs.name[n], <<>>).container_name,
                                 first, ok)

SpecDocker == InitRun /\ [][NextDocker]_vars

\* the operation that has just acted is one of DockerService
DockerActs == res'.op \in {"DockerService.run_container", "DockerService.remove_container"}

\* C29: run_container reports a conflict only when a container with exactly the
\* requested name exists, and neither run_container nor remove_container takes away a
\* container whose name is not the requested name
C29_ExactNameOnly ==
    [][DockerActs =>
          /\ res'.raised = "exists" => \E k \in 1..Len(engine) : engine[k].name = res'.name
          /\ \A k \in 1..Len(engine) :
                 engine[k].name # res'.name => \E j \in 1..Len(engine') : engine'[j] = engine[k]]_vars

\* what DockerService does: it acts on the containers whose name contains the
\* requested name
C29_ContainingNames ==
    [][DockerActs =>
          /\ res'.raised = "exists" => \E k \in 1..Len(engine) : HasSub(engine[k].name, res'.name)
          /\ \A k \in 1..Len(engine) :
                 ~HasSub(engine[k].name, res'.name) => \E j \in 1..Len(engine') : engine'[j] = engine[k]]_vars

-----------------------------------------------------------------------------
(* ImageService and the run command (ispawn/services/image.py, main.py)    *)

\* ImageService.build_image: [err, calls, kept]; prepared is what happens while the
\* build context is written to the build directory ("ok", "render" for a template that
\* fails to render, "copy" for a file that cannot be copied), outcome is what
\* client.images.build does ("ok", "BuildError", "APIError" or "Exception"); kept is
\* whether the build directory is left behind.  sys.exit raises SystemExit, which
\* "except Exception" does not catch.
build_image(config, prepared, outcome) ==
    LET tag == target_image(config)
        build == <<[name |-> tag.tag, call |-> "images.build"]>>
    IN  IF prepared # "ok" THEN [calls |-> <<>>, err |-> "ImageError", kept |-> TRUE]
        ELSE IF tag.err # "none" THEN [calls |-> <<>>, err |-> "ImageError", kept |-> TRUE]
        ELSE CASE outcome = "ok" -> [calls |-> build, err |-> "none", kept |-> FALSE]
               [] outcome \in {"BuildError", "APIError"} ->
                      [calls |-> build, err |-> "SystemExit", kept |-> TRUE]
               [] OTHER -> [calls |-> build, err |-> "ImageError", kept |-> TRUE]

\* ImageService.check_image: [found, calls]; any exception, that of target_image
\* included, is swallowed and gives False
check_image(config, present) ==
    LET tag == target_image(config)
    IN  IF tag.err # "none" THEN [calls |-> <<>>, found |-> FALSE]
        ELSE [calls |-> <<[name |-> tag.tag, call |-> "images.get"]>>, found |-> present]

\* im.build_image(image_config)
BuildImage(base, services, prepared, outcome) ==
    LET ic == ImageConfigInit(cfg, base, services)
        r == build_image(ic.obj, prepared, outcome)
    IN  /\ ic.err = "none"
        /\ calls' = r.calls
        /\ res' = [op |-> "build_image", err |-> r.err, kept |-> r.kept,
                   prepared |-> prepared, outcome |-> outcome]
        /\ UNCHANGED <<kwargs, cfg, files, loaded, dirs, imgIn, imgOut, volIn, volOut,
                       ccIn, cc, engine>>

\* the services of a run for which none are given
RunDefaults == <<S_vscode, S_rstudio, S_jupyter>>

\* run(ctx, name, base, services, volumes, build, group, user, no_sudo) under the loaded
\* Config cfg; present is whether the engine has the target image.  ContainerConfig is
\* called with the keywords name, config, image_config, volumes, group, user and sudo,
\* which the __init__ of ispawn/domain/container.py does not take: TypeError.  Every
\* Exception is reported and ends the process with status 1.
Run(base, services, volumes, build, present, prepared, outcome) ==
    LET parsed_volumes == parse_volumes(volumes, cfg.mount_point)
        image_config == ImageConfigInit(cfg, base, IF services = <<>> THEN RunDefaults ELSE services)
        checked == check_image(image_config.obj, present)
        built == build_image(image_config.obj, prepared, outcome)
        result ==
            IF parsed_volumes.err # "none" THEN [calls |-> <<>>, err |-> parsed_volumes.err]
            ELSE IF image_config.err # "none" THEN [calls |-> <<>>, err |-> image_config.err]
            ELSE IF checked.found THEN [calls |-> checked.calls, err |-> "TypeError"]
            ELSE IF ~build THEN [calls |-> checked.calls, err |-> "SystemExit"]
            ELSE IF built.err # "none"
            THEN [calls |-> checked.calls \o built.calls, err |-> built.err]
            ELSE [calls |-> checked.calls \o built.calls, err |-> "TypeError"]
    IN  /\ calls' = result.calls
        /\ res' = [op |-> "run", err |-> result.err, build |-> build]
        /\ UNCHANGED <<kwargs, cfg, files, loaded, dirs, imgIn, imgOut, volIn, volOut,
                       ccIn, cc, engine>>

\* the values the run command is given
MainInputs ==
    [ volumes |-> << <<>>, <<S_data>>, <<S_data_w_rx>>, <<S_data_rel>> >>,
      base |-> << S_ubuntu_latest, S_ubuntu, S_port_ubuntu >>,
      services |-> << <<>>, <<S_jupyter>>, <<S_vscode, S_jupyter>>, <<RunText.nope>> >>,
      prepared |-> << "ok", "render", "copy" >>,
      outcome |-> << "ok", "BuildError", "APIError", "Exception" >> ]

NextMain ==
    \/ \E b \in DOMAIN MainInputs.base, s \in 2..3, p \in DOMAIN MainInputs.prepared,
          o \in DOMAIN MainInputs.outcome :
           BuildImage(MainInputs.base[b], MainInputs.services[s], MainInputs.prepared[p],
                      MainInputs.outcome[o])
    \/ \E b \in DOMAIN MainInputs.base, s \in DOMAIN MainInputs.services,
          v \in DOMAIN MainInputs.volumes, build, present \in BOOLEAN,
          p \in DOMAIN MainInputs.prepared, o \in DOMAIN MainInputs.outcome :
           Run(MainInputs.base[b], MainInputs.services[s], MainInputs.volumes[v], build, present,
               MainInputs.prepared[p], MainInputs.outcome[o])

SpecMain == InitRun /\ [][NextMain]_vars

\* C25: every failure of build_image reaches the caller as an ImageError, a build error
\* and an API error of the engine included; build_image never ends the process
C25_BuildFailureIsImageError ==
    res.op = "build_image" =>
        /\ res.err \in {"none", "ImageError"}
        /\ res.outcome \in {"BuildError", "APIError"} /\ calls # <<>> => res.err = "ImageError"

\* a failure that is neither a build error nor an API error of the engine is an ImageError
C25_OtherFailuresAreImageErrors ==
    res.op = "build_image" =>
        /\ res.err \in {"none", "ImageError", "SystemExit"}
        /\ res.err = "SystemExit" <=> (calls # <<>> /\ res.outcome \in {"BuildError", "APIError"})
        /\ res.err = "none" <=> (calls # <<>> /\ res.outcome = "ok")

\* C21: a run that ends with an error raised by the validation of its arguments or by the
\* construction of its configurations (any error but one reported by the engine adapter
\* or the exit for a missing image) has made no call to the container engine
C21_ValidationBeforeEngine ==
    (res.op = "run" /\ res.err \notin {"none", "ImageError", "ContainerError", "SystemExit"}) =>
        calls = <<>>

\* the volume and image validations of a run are made before any engine call
C21_VolumesAndImageFirst ==
    (res.op = "run" /\ res.err \notin {"none", "ImageError", "ContainerError", "SystemExit",
                                      "TypeError"}) =>
        calls = <<>>

-----------------------------------------------------------------------------
(* logs_command (ispawn/commands/logs.py)                                  *)

\* config.log_dir.glob(f"{container_name}.*"): the entries of log_dir whose name is
\* container_name, a dot and anything
LogDirsOf(log_dir, container_name, existing) ==
    LET stem == (log_dir \o <<"/">>) \o container_name \o <<".">>
    IN  { d \in existing : StartsWith(d, stem)
                              /\ ~HasChar(SubSeq(d, Len(stem) + 1, Len(d)), "/") }

\* sorted(...)[-1]: the greatest path in the order of str
latest_log_dir(log_dirs) == CHOOSE d \in log_dirs : \A e \in log_dirs : ~StrLess(d, e)

\* logs_command(config, container_name): the directory whose logs are printed; every
\* Exception is raised again as a RuntimeError
LogsCommand(container_name) ==
    LET found == NameFilter(engine, S_ispawn \o <<"-">> \o container_name) # {}
        log_dirs == LogDirsOf(RunText.logs, container_name, dirs)
    IN  /\ res' = IF ~found \/ log_dirs = {}
                  THEN [op |-> "logs_command", err |-> "RuntimeError", name |-> container_name,
                        dir |-> None]
                  ELSE [op |-> "logs_command", err |-> "none", name |-> container_name,
                        dir |-> latest_log_dir(log_dirs)]
        /\ calls' = <<[name |-> S_ispawn \o <<"-">> \o container_name, call |-> "list"]>>
        /\ UNCHANGED <<kwargs, cfg, files, loaded, dirs, imgIn, imgOut, volIn, volOut,
                       ccIn, cc, engine>>

\* a log directory of an earlier run is deleted on the host
DeleteLogDir(d) ==
    /\ d \in dirs /\ d # kwargs.name
    /\ dirs' = dirs \ {d}
    /\ res' = [op |-> "rmdir", err |-> "none"]
    /\ UNCHANGED <<kwargs, cfg, files, loaded, imgIn, imgOut, volIn, volOut, ccIn, cc,
                   engine, calls>>

NextLogs ==
    \/ \E n \in DOMAIN ContainerInputs.name :
           NewContainerConfig(MkContainerArgs(cfg, ContainerInputs.name[n], <<S_jupyter>>, None,
                                              RunText.logs, S_provided))
    \/ \E force \in BOOLEAN, first \in (1..Len(engine)) \cup {1} :
           cc # NoObject /\ DockerRunContainer(cc, force, first, TRUE, "ok")
    \/ \E d \in dirs : DeleteLogDir(d)
    \/ \E n \in DOMAIN ContainerInputs.name : LogsCommand(ContainerInputs.name[n])

SpecLogs == InitContainer /\ [][NextLogs]_vars

\* C24: logs_command reads the log directory of the most recent run of the container:
\* after a run of the container has made its log directory, the directory
\* logs_command selects is that one, whatever earlier directories exist or were deleted
C24_LatestLogDir ==
    (res.op = "logs_command" /\ res.err = "none" /\ cc # NoObject /\ cc.raw_name = res.name
       /\ cc.log_dir \in dirs) =>
        res.dir = cc.log_dir

\* the directory logs_command selects is the greatest existing one in the order of str
C24_GreatestByStr ==
    (res.op = "logs_command" /\ res.err = "none") =>
        /\ res.dir \in dirs
        /\ \A d \in LogDirsOf(RunText.logs, res.name, dirs) : ~StrLess(res.dir, d)

-----------------------------------------------------------------------------
(* The Config of ispawn/config.py: a nested document kept in a file        *)

\* a dict is a function from its keys; d[k] = v on a dict that may lack k
EmptyDict == [k \in {} |-> None]
Put(d, k, v) == [x \in DOMAIN d \cup {k} |-> IF x = k THEN v ELSE d[x]]
Section(d, k) == IF k \in DOMAIN d THEN d[k] ELSE EmptyDict

\* fixed text of ispawn/config.py: the default domain and the directories under
\* config_dir
LegacyText ==
    [ config_dir |-> <<"~", "/", ".", "c", "o", "n", "f", "i", "g", "/", "i", "s", "p", "a", "w", "n">>, domain |-> <<"i", "s", "p", "a", "w", "n", ".", "l", "o", "c", "a", "l", "h", "o", "s", "t">>,
      logs |-> <<"~", "/", ".", "c", "o", "n", "f", "i", "g", "/", "i", "s", "p", "a", "w", "n", "/", "l", "o", "g", "s">>, certs |-> <<"~", "/", ".", "c", "o", "n", "f", "i", "g", "/", "i", "s", "p", "a", "w", "n", "/", "c", "e", "r", "t", "s">> ]

\* the sections _create_default_config and _load_config write
DefaultSsl == [cert_mode |-> S_letsencrypt, email |-> None, cert_dir |-> LegacyText.certs]
DefaultLogs == [dir |-> LegacyText.logs]
DefaultServices ==
    [ jupyter |-> [port |-> 8888, enabled |-> TRUE],
      rstudio |-> [port |-> 8787, enabled |-> TRUE],
      vscode |-> [port |-> 8842, enabled |-> TRUE] ]

\* Config._create_default_config: self.config
create_default_config ==
    [ name |-> S_ispawn,
      services |-> DefaultServices,
      logs |-> DefaultLogs,
      web |-> [domain |-> LegacyText.domain, mode |-> S_local, subnet |-> S_subnet,
               ssl |-> DefaultSsl] ]

\* Config._load_config: self.config for the document read from the file
load_config(doc) ==
    LET with_logs == IF "logs" \in DOMAIN doc THEN doc ELSE Put(doc, "logs", DefaultLogs)
        with_web == IF "web" \in DOMAIN with_logs THEN with_logs
                    ELSE Put(with_logs, "web", EmptyDict)
        with_ssl == IF "ssl" \in DOMAIN with_web.web THEN with_web
                    ELSE Put(with_web, "web", Put(with_web.web, "ssl", DefaultSsl))
    IN  IF "services" \in DOMAIN with_ssl THEN with_ssl
        ELSE Put(with_ssl, "services", DefaultServices)

\* the files Config(config_file) may find: none, an empty one, one that holds a domain
\* and a mode only, and a complete one
ConfigFiles ==
    << None,
       EmptyDict,
       [name |-> S_ispawn, web |-> [domain |-> S_example_com, mode |-> S_remote]],
       [create_default_config EXCEPT !.web.domain = S_demo_localhost] >>

\* Config(config_file): the config directory is made, the file is loaded when it exists
\* (kwargs.exists) or the default configuration created, and the result saved
LegacyConfig ==
    /\ loaded = NoObject
    /\ loaded' = IF ~kwargs.exists THEN create_default_config
                 ELSE load_config(files["user"])
    /\ files' = [files EXCEPT !["user"] = loaded']
    /\ dirs' = dirs \cup {LegacyText.config_dir}
    /\ res' = [op |-> "Config", err |-> "none"]
    /\ UNCHANGED <<kwargs, cfg, imgIn, imgOut, volIn, volOut>>
    /\ UNCHANGED runVars

\* the end of every setter: the document is saved when nothing was raised
Updated(op, err, config) ==
    /\ loaded # NoObject
    /\ loaded' = IF err = "none" THEN config ELSE loaded
    /\ files' = IF err = "none" THEN [files EXCEPT !["user"] = config] ELSE files
    /\ res' = [op |-> op, err |-> err]
    /\ UNCHANGED <<kwargs, cfg, dirs, imgIn, imgOut, volIn, volOut>>
    /\ UNCHANGED runVars

\* Config.set_mode(mode): Mode.from_str, whose ValueError is raised as ConfigurationError
set_mode(mode) ==
    Updated("set_mode",
            IF Lower(mode) \in {S_local, S_remote} THEN "none" ELSE "ConfigurationError",
            Put(loaded, "web", Put(Section(loaded, "web"), "mode", Lower(mode))))

\* Config.set_cert_mode(mode)
set_cert_mode(mode) ==
    LET web == Section(loaded, "web")
    IN  Updated("set_cert_mode",
                IF Lower(mode) \in {S_letsencrypt, S_provided} THEN "none"
                ELSE "ConfigurationError",
                Put(loaded, "web",
                    Put(web, "ssl", Put(Section(web, "ssl"), "cert_mode", Lower(mode)))))

\* Config.set_domain(domain)
set_domain(domain) ==
    Updated("set_domain", "none",
            Put(loaded, "web", Put(Section(loaded, "web"), "domain", domain)))

\* Config.set_email(email)
set_email(email) ==
    LET web == Section(loaded, "web")
    IN  Updated("set_email", "none",
                Put(loaded, "web", Put(web, "ssl", Put(Section(web, "ssl"), "email", email))))

\* Config.get_all(): self.config.copy(), a new dict whose values are the very objects
\* of self.config; shared is the keys under which the two dicts hold one object
get_all ==
    /\ loaded # NoObject
    /\ res' = [op |-> "get_all", err |-> "none", value |-> loaded, shared |-> DOMAIN loaded]
    /\ UNCHANGED <<kwargs, cfg, files, loaded, dirs, imgIn, imgOut, volIn, volOut>>
    /\ UNCHANGED runVars

\* d with the value at a path of keys replaced
RECURSIVE PutAt(_, _, _)
PutAt(d, path, v) ==
    IF Len(path) = 1 THEN Put(d, path[1], v)
    ELSE Put(d, path[1], PutAt(d[path[1]], Tail(path), v))

\* the caller assigns to the value get_all returned, at a path of keys: an assignment
\* below a shared key changes the object self.config holds too, one at the top rebinds
\* the key in the returned dict alone
ModifyReturned(path, v) ==
    /\ res.op \in {"get_all", "modify"}
    /\ path[1] \in DOMAIN res.value
    /\ Len(path) > 1 => path[2] \in DOMAIN res.value[path[1]]
    /\ Len(path) > 2 => path[3] \in DOMAIN res.value[path[1]][path[2]]
    /\ res' = [op |-> "modify", err |-> "none", value |-> PutAt(res.value, path, v),
               shared |-> IF Len(path) = 1 THEN res.shared \ {path[1]} ELSE res.shared,
               depth |-> Len(path)]
    /\ loaded' = IF Len(path) > 1 /\ path[1] \in res.shared THEN PutAt(loaded, path, v)
                 ELSE loaded
    /\ UNCHANGED <<kwargs, cfg, files, dirs, imgIn, imgOut, volIn, volOut>>
    /\ UNCHANGED runVars

\* the places of the returned value the caller assigns to
ReturnedPaths == << <<"name">>, <<"web", "domain">>, <<"web", "ssl", "email">> >>

InitLegacy ==
    /\ \E i \in DOMAIN ConfigFiles :
           /\ files = [s \in {"user", "system"} |-> IF s = "user" THEN ConfigFiles[i] ELSE None]
           /\ kwargs = [exists |-> i # 1, config_file |-> None]
    /\ cfg = NoObject /\ loaded = NoObject /\ res = Idle /\ dirs = {}
    /\ imgIn = Unset /\ imgOut = Unset /\ volIn = Unset /\ volOut = Unset
    /\ RunIdle

NextLegacy ==
    \/ LegacyConfig
    \/ \E mode \in {S_local, S_LOCAL, S_remote, S_invalid} : set_mode(mode)
    \/ \E mode \in {S_letsencrypt, S_provided, S_invalid} : set_cert_mode(mode)
    \/ \E domain \in {S_example_com, S_demo_localhost} : set_domain(domain)
    \/ \E email \in {S_email} : set_email(email)
    \/ get_all
    \/ \E p \in DOMAIN ReturnedPaths : ModifyReturned(ReturnedPaths[p], S_example_com)

SpecLegacy == InitLegacy /\ [][NextLegacy]_vars

\* the values the properties of the Config report for a document
ReportedMode(doc) == IF "mode" \in DOMAIN Section(doc, "web") THEN doc.web.mode ELSE S_local
ReportedDomain(doc) ==
    IF "domain" \in DOMAIN Section(doc, "web") THEN doc.web.domain ELSE LegacyText.domain
ReportedCertMode(doc) ==
    IF "cert_mode" \in DOMAIN Section(Section(doc, "web"), "ssl") THEN doc.web.ssl.cert_mode
    ELSE S_letsencrypt
ReportedEmail(doc) ==
    IF "email" \in DOMAIN Section(Section(doc, "web"), "ssl") THEN doc.web.ssl.email ELSE None

\* the joint consistency rules of mode, certificate strategy, email and domain
JointlyConsistent(doc) ==
    /\ ReportedMode(doc) = S_local =>
           /\ ReportedCertMode(doc) = None
           /\ ReportedEmail(doc) = None
           /\ EndsWith(ReportedDomain(doc), S_dotlocalhost)
    /\ ReportedMode(doc) = S_remote =>
           /\ ReportedCertMode(doc) \in {S_letsencrypt, S_provided}
           /\ ReportedCertMode(doc) = S_letsencrypt => Truthy(ReportedEmail(doc))

\* C23: starting from the default configuration, the persisted configuration satisfies
\* the joint consistency rules after the construction and after every update
C23_PersistedIsConsistent ==
    (~kwargs.exists /\ loaded # NoObject /\ res.op \notin {"get_all", "modify"}) =>
        JointlyConsistent(files["user"])

\* every update that raises nothing is saved: the file then holds the document of the
\* Config
C23_UpdatesAreSaved ==
    [][(res'.op \in {"set_mode", "set_cert_mode", "set_domain", "set_email"}
          /\ res'.err = "none") => files'["user"] = loaded']_vars

\* C26: loading an existing file adds nothing to the document, get_all returns the
\* document of the Config, and no assignment to the returned value, at any depth,
\* changes the document the Config holds
C26_GetAllIsACopy ==
    [][/\ res'.op = "Config" /\ kwargs.exists => loaded' = files["user"]
       /\ res'.op = "get_all" => res'.value = loaded
       /\ res'.op = "modify" => loaded' = loaded]_vars

\* an assignment at the top of the returned value leaves the Config alone, and a file
\* that holds every section is loaded as it is
C26_TopLevelCopy ==
    [][/\ (res'.op = "Config" /\ kwargs.exists
             /\ {"logs", "web", "services"} \subseteq DOMAIN files["user"]
             /\ "ssl" \in DOMAIN files["user"].web) => loaded' = files["user"]
       /\ res'.op = "get_all" => res'.value = loaded
       /\ (res'.op = "modify" /\ res'.depth = 1) => loaded' = loaded]_vars

====
